---- MODULE Spec2Model ----
(***************************************************************************)
(* Academic ledger of the school-management backend: the grade and         *)
(* attendance services (app/services), the repositories they write through *)
(* (app/repositories) and the table constraints of the academic models     *)
(* (app/models/academic.py).                                               *)
(*                                                                         *)
(* Modelling conventions                                                   *)
(*  - A table is a sequence of rows; a row's id is its index.              *)
(*  - The services name the row fields score, max_score, grade (the letter)*)
(*    and date; the model file declares the grades columns grade/max_grade *)
(*    and the attendance column attendance_date (a Date).  The rows here   *)
(*    carry the services' field names, and the table constraints of the    *)
(*    model file are applied to the fields of the same meaning: the score  *)
(*    checks to score/max_score, the daily uniqueness to the calendar day  *)
(*    of date.                                                             *)
(*  - A percentage is the exact rational <<numerator, denominator>> with a *)
(*    positive denominator; the code computes it in binary floating point, *)
(*    which classifies every (score, max_score) pair used here alike.      *)
(*  - GPA points are counted in tenths (4.0 is 40).                        *)
(*  - Every exception a service raises is a ValueError; the result of a    *)
(*    call names the kind of the error by the message it carries.          *)
(*  - Calls are sequential: a call runs from the idle state and leaves its *)
(*    response in last; Respond hands the response to the caller and makes *)
(*    the service idle again.                                              *)
(***************************************************************************)
EXTENDS Integers, Sequences, FiniteSets, TLC

None == "None"

\* ----------------------------------------------------------------- bounds
MaxGrades == 2        \* rows the grades table may hold
MaxAttendance == 2    \* rows the attendance table may hold
MaxBatch == 2         \* inputs of one bulk call
MaxClock == 1         \* the latest time the clock reads
PctOver == 4          \* how far outside [0, 100] a classified percentage goes
MaxLedger == 3        \* grade rows of a ledger whose summaries are read
MaxCache == 2         \* entries the cache of the letter function holds (128 in the code)

\* ------------------------------------------------------------ input sets
Students == {"s1", "s2"}
CourseIds == {"c1", "c2"}
Users == {"u1"}
Letters == {"A+", "A", "A-", "B+", "B", "B-", "C+", "C", "C-", "D+", "D", "F"}
Days == {1, 2}
TimesOfDay == {0, 1}

VARIABLES
    courses,      \* the courses table: course id -> None | row
    grades,       \* the grades table
    attendance,   \* the attendance table
    clock,        \* the last reading of datetime.utcnow()
    classified,   \* the last two results of the classification functions
    cache,        \* the lru_cache of _get_letter_grade_cached, oldest entry first
    metrics,      \* the metric tasks of a running aggregation: task -> slot
    requests,     \* the record_attendance requests in flight: worker -> position
    last          \* the last call: operation, input, result, entries the error names

vars == <<courses, grades, attendance, clock, classified, cache, metrics, requests,
          last>>

\* ------------------------------------------------- classification table
\* percentage = (score / max_score) * 100
Percentage(score, max_score) ==
    IF max_score > 0 THEN <<score * 100, max_score>>
                     ELSE <<-(score * 100), -max_score>>

\* percentage >= t
Geq(p, t) == p[1] >= t * p[2]

\* GradeService._calculate_letter_grade
CalculateLetterGrade_Strict(p) ==
    IF p[1] > 97 * p[2] THEN "A+"
    ELSE IF p[1] > 93 * p[2] THEN "A"
    ELSE IF p[1] > 90 * p[2] THEN "A-"
    ELSE IF p[1] > 87 * p[2] THEN "B+"
    ELSE IF p[1] > 83 * p[2] THEN "B"
    ELSE IF p[1] > 80 * p[2] THEN "B-"
    ELSE IF p[1] > 77 * p[2] THEN "C+"
    ELSE IF p[1] > 73 * p[2] THEN "C"
    ELSE IF p[1] > 70 * p[2] THEN "C-"
    ELSE IF p[1] > 67 * p[2] THEN "D+"
    ELSE IF p[1] > 65 * p[2] THEN "D"
    ELSE "F"

CalculateLetterGrade(p) ==
    IF Geq(p, 97) THEN "A+"
    ELSE IF Geq(p, 93) THEN "A"
    ELSE IF Geq(p, 90) THEN "A-"
    ELSE IF Geq(p, 87) THEN "B+"
    ELSE IF Geq(p, 83) THEN "B"
    ELSE IF Geq(p, 80) THEN "B-"
    ELSE IF Geq(p, 77) THEN "C+"
    ELSE IF Geq(p, 73) THEN "C"
    ELSE IF Geq(p, 70) THEN "C-"
    ELSE IF Geq(p, 67) THEN "D+"
    ELSE IF Geq(p, 65) THEN "D"
    ELSE "F"

\* OptimizedGradeService._get_letter_grade_cached (the function it caches)
GetLetterGradeCached(p) ==
    IF Geq(p, 97) THEN "A+"
    ELSE IF Geq(p, 93) THEN "A"
    ELSE IF Geq(p, 90) THEN "A-"
    ELSE IF Geq(p, 87) THEN "B+"
    ELSE IF Geq(p, 83) THEN "B"
    ELSE IF Geq(p, 80) THEN "B-"
    ELSE IF Geq(p, 77) THEN "C+"
    ELSE IF Geq(p, 73) THEN "C"
    ELSE IF Geq(p, 70) THEN "C-"
    ELSE IF Geq(p, 67) THEN "D+"
    ELSE IF Geq(p, 65) THEN "D"
    ELSE "F"

PercentageToGpa_SwappedTiers(p) ==
    IF Geq(p, 97) THEN 40
    ELSE IF Geq(p, 93) THEN 33
    ELSE IF Geq(p, 90) THEN 37
    ELSE IF Geq(p, 87) THEN 30
    ELSE IF Geq(p, 83) THEN 27
    ELSE IF Geq(p, 80) THEN 23
    ELSE IF Geq(p, 77) THEN 20
    ELSE IF Geq(p, 73) THEN 17
    ELSE IF Geq(p, 70) THEN 13
    ELSE IF Geq(p, 67) THEN 10
    ELSE IF Geq(p, 65) THEN 7
    ELSE 0

\* OptimizedGradeService._percentage_to_gpa, in tenths of a point
PercentageToGpa(p) ==
    IF Geq(p, 97) THEN 40
    ELSE IF Geq(p, 93) THEN 37
    ELSE IF Geq(p, 90) THEN 33
    ELSE IF Geq(p, 87) THEN 30
    ELSE IF Geq(p, 83) THEN 27
    ELSE IF Geq(p, 80) THEN 23
    ELSE IF Geq(p, 77) THEN 20
    ELSE IF Geq(p, 73) THEN 17
    ELSE IF Geq(p, 70) THEN 13
    ELSE IF Geq(p, 67) THEN 10
    ELSE IF Geq(p, 65) THEN 7
    ELSE 0

\* ------------------------------------------------------------ the call log
Call(op, input, result, reported) ==
    [op |-> op, input |-> input, result |-> result, reported |-> reported]

NoCall == Call("none", <<>>, "OK", {})

\* no response is outstanding
Idle == last = NoCall

\* no aggregation is running: no metric task exists
NoMetrics == <<>>

\* the request handlers that serve record_attendance calls at the same time,
\* each with a database session of its own
Workers == {"w1", "w2"}

\* a handler that serves no request
NoRequest == [pc |-> "idle"]

NoRequests == [w \in Workers |-> NoRequest]

\* the caller takes the response of the last call
Respond ==
    /\ ~Idle
    /\ last.result # "Running"
    /\ last' = NoCall
    /\ UNCHANGED <<courses, grades, attendance, clock, classified, cache, metrics, requests>>

\* -------------------------------------------------------- courses table
\* enrolled_students of a course nobody was enrolled in yet (Python's None)
NoList == {None}

\* Course row as the services read it: is_active and enrolled_students
CourseRow(active, enrolled) ==
    [exists |-> TRUE, is_active |-> active, enrolled_students |-> enrolled]

\* what get_by_id finds for an id that no row carries
NoCourse == [exists |-> FALSE, is_active |-> FALSE, enrolled_students |-> NoList]

\* CourseRepository.get_by_id
GetCourse(c) == courses[c]

\* not course.enrolled_students or student_id not in course.enrolled_students
NotEnrolled(course, s) ==
    \/ course.enrolled_students = NoList
    \/ course.enrolled_students = {}
    \/ s \notin course.enrolled_students

\* CourseService.create_course: a new active course with no enrolment list
CreateCourse(c) ==
    /\ Idle
    /\ ~courses[c].exists
    /\ courses' = [courses EXCEPT ![c] = CourseRow(TRUE, NoList)]
    /\ last' = Call("create_course", <<c>>, "OK", {})
    /\ UNCHANGED <<grades, attendance, clock, classified, cache, metrics, requests>>

\* CourseService.delete_course (soft delete): BaseRepository.soft_delete
DeleteCourse(c) ==
    /\ Idle
    /\ IF ~courses[c].exists
       THEN /\ last' = Call("delete_course", <<c>>, "False", {})
            /\ UNCHANGED courses
       ELSE /\ courses' = [courses EXCEPT ![c].is_active = FALSE]
            /\ last' = Call("delete_course", <<c>>, "OK", {})
    /\ UNCHANGED <<grades, attendance, clock, classified, cache, metrics, requests>>

\* CourseService.update_course with CourseUpdate(is_active = active)
UpdateCourse(c, active) ==
    /\ Idle
    /\ IF ~courses[c].exists
       THEN /\ last' = Call("update_course", <<c>>, "None", {})
            /\ UNCHANGED courses
       ELSE /\ courses' = [courses EXCEPT ![c].is_active = active]
            /\ last' = Call("update_course", <<c>>, "OK", {})
    /\ UNCHANGED <<grades, attendance, clock, classified, cache, metrics, requests>>

\* CourseService.enroll_student over CourseRepository.enroll_student
EnrollStudent(c, s) ==
    /\ Idle
    /\ IF ~courses[c].exists
       THEN /\ last' = Call("enroll_student", <<c, s>>, "NotFound", {})
            /\ UNCHANGED courses
       ELSE IF ~courses[c].is_active
       THEN /\ last' = Call("enroll_student", <<c, s>>, "InactiveResource", {})
            /\ UNCHANGED courses
       ELSE /\ courses' = [courses EXCEPT ![c].enrolled_students =
                              IF @ = NoList THEN {s} ELSE @ \cup {s}]
            /\ last' = Call("enroll_student", <<c, s>>, "OK", {})
    /\ UNCHANGED <<grades, attendance, clock, classified, cache, metrics, requests>>

\* CourseService.unenroll_student over CourseRepository.unenroll_student
UnenrollStudent(c, s) ==
    /\ Idle
    /\ IF \/ ~courses[c].exists
          \/ courses[c].enrolled_students = NoList
          \/ courses[c].enrolled_students = {}
       THEN /\ last' = Call("unenroll_student", <<c, s>>, "False", {})
            /\ UNCHANGED courses
       ELSE /\ courses' = [courses EXCEPT ![c].enrolled_students = @ \ {s}]
            /\ last' = Call("unenroll_student", <<c, s>>, "OK", {})
    /\ UNCHANGED <<grades, attendance, clock, classified, cache, metrics, requests>>

\* the checks every ledger write makes on the course and the student, in the
\* order of the code: the first that fails names the error
CourseCheck_EnrolmentFirst(c, s) ==
    LET course == GetCourse(c) IN
    IF ~course.exists THEN "NotFound"
    ELSE IF NotEnrolled(course, s) THEN "NotEnrolled"
    ELSE IF ~course.is_active THEN "InactiveResource"
    ELSE "OK"

CourseCheck_ActiveUnchecked(c, s) ==
    LET course == GetCourse(c) IN
    IF ~course.exists THEN "NotFound"
    ELSE IF NotEnrolled(course, s) THEN "NotEnrolled"
    ELSE "OK"

CourseCheck(c, s) ==
    LET course == GetCourse(c) IN
    IF ~course.exists THEN "NotFound"
    ELSE IF ~course.is_active THEN "InactiveResource"
    ELSE IF NotEnrolled(course, s) THEN "NotEnrolled"
    ELSE "OK"

\* ----------------------------------------------------------- the clock
\* datetime.utcnow(): a reading never earlier than the reading before it
Readings == clock..MaxClock

\* ------------------------------------------------------- grade schema
\* GradeBase.validate_assessment_type
AllowedTypes == {"quiz", "exam", "assignment", "project", "participation"}

\* GradeBase.validate_score(v, values): values holds the fields validated
\* before score, in the order the class declares them
ValidateScore(v, values) ==
    ~("max_score" \in DOMAIN values /\ v > values.max_score)

\* GradeCreate(**raw) is accepted: Field(ge=0), Field(gt=0) and the validators
GradeCreateOK(raw) ==
    /\ raw.assessment_type \in AllowedTypes
    /\ raw.score >= 0
    /\ ValidateScore(raw.score, [assessment_type |-> raw.assessment_type])
    /\ raw.max_score > 0

\* -------------------------------------------------------- grades table
\* Grade.__table_args__: non_negative_grade, positive_max_grade, grade_within_max
GradeConstraints_NoUpperBound(row) ==
    /\ row.score >= 0
    /\ row.max_score > 0

GradeConstraints(row) ==
    /\ row.score >= 0
    /\ row.max_score > 0
    /\ row.score <= row.max_score

\* Grade.validate_grade and Grade.validate_max_grade, run when a row is built
\* and when one of the two attributes is set
GradeValidators(row) ==
    /\ row.score >= 0
    /\ row.max_score > 0

\* the row record_grade and bulk_record_grades build from a GradeCreate
GradeRow(g, letter, by, at) ==
    [student_id |-> g.student_id, course_id |-> g.course_id,
     assessment_type |-> g.assessment_type,
     score |-> g.score, max_score |-> g.max_score,
     grade |-> letter, recorded_by |-> by, recorded_at |-> at]

\* GradeService.record_grade behind the GradeCreate schema of the endpoint
RecordGrade(raw, by) ==
    \E at \in Readings :
    LET check == CourseCheck(raw.course_id, raw.student_id)
        letter == CalculateLetterGrade(Percentage(raw.score, raw.max_score))
        row == GradeRow(raw, letter, by, at)
        result == IF ~GradeCreateOK(raw) THEN "InvalidInput"
                  ELSE IF check # "OK" THEN check
                  ELSE IF ~GradeValidators(row) THEN "InvalidInput"
                  ELSE IF ~GradeConstraints(row) THEN "ConstraintViolation"
                  ELSE "OK"
    IN  /\ Idle
        /\ result = "OK" => Len(grades) < MaxGrades
        /\ IF result = "OK"
           THEN grades' = Append(grades, row) /\ clock' = at
           ELSE UNCHANGED <<grades, clock>> /\ at = clock
        /\ last' = Call("record_grade", <<raw>>, result, {})
        /\ UNCHANGED <<courses, attendance, classified, cache, metrics, requests>>

\* ----------------------------------------------------------- update_grade
\* update_data.get(key, default); a patch is the dict of the keys it names
Get(patch, key, default) == IF key \in DOMAIN patch THEN patch[key] ELSE default

\* BaseRepository.update: setattr for every key of update_data the row has
Patched(row, update_data) ==
    [f \in DOMAIN row |-> IF f \in DOMAIN update_data THEN update_data[f] ELSE row[f]]

\* GradeService.update_grade
UpdateGrade(id, patch, by) ==
    \E at \in Readings :
    LET found == id \in 1..Len(grades)
        existing == grades[id]
        rescored == "score" \in DOMAIN patch \/ "max_score" \in DOMAIN patch
        score == Get(patch, "score", existing.score)
        max_score == Get(patch, "max_score", existing.max_score)
        letter == CalculateLetterGrade(Percentage(score, max_score))
        update_data == [recorded_by |-> by, recorded_at |-> at]
                       @@ (IF rescored THEN [grade |-> letter] ELSE <<>>)
                       @@ patch
        row == Patched(existing, update_data)
        result == IF ~found THEN "None"
                  ELSE IF rescored /\ max_score = 0 THEN "ZeroDivision"
                  ELSE IF ~GradeValidators(row) THEN "InvalidInput"
                  ELSE IF ~GradeConstraints(row) THEN "ConstraintViolation"
                  ELSE "OK"
    IN  /\ Idle
        /\ IF result = "OK"
           THEN grades' = [grades EXCEPT ![id] = row] /\ clock' = at
           ELSE UNCHANGED <<grades, clock>> /\ at = clock
        /\ last' = Call("update_grade", <<id, patch>>, result, {})
        /\ UNCHANGED <<courses, attendance, classified, cache, metrics, requests>>

\* ------------------------------------------------------------ bulk writes
Indices(batch) == 1..Len(batch)

\* the entries of a batch that fail the course and enrolment checks
Offending(batch) ==
    {i \in Indices(batch) : CourseCheck(batch[i].course_id, batch[i].student_id) # "OK"}

Min(S) == CHOOSE x \in S : \A y \in S : x <= y

\* the rows of a batch before the first one the table constraints refuse
GradesBulkCreate_RowByRow(rows) ==
    LET bad == {i \in Indices(rows) : ~GradeConstraints(rows[i])}
    IN  grades \o (IF bad = {} THEN rows ELSE SubSeq(rows, 1, Min(bad) - 1))

\* BaseRepository.bulk_create on the grades table: add_all and one commit,
\* rolled back as a whole on an IntegrityError
GradesBulkCreate(rows) ==
    IF \A i \in Indices(rows) : GradeConstraints(rows[i])
    THEN grades \o rows ELSE grades

\* GradeService.bulk_record_grades behind the BulkGradeCreate schema
BulkRecordGrades(batch, by) ==
    \E at \in Readings :
    LET rows == [i \in Indices(batch) |->
                    GradeRow(batch[i],
                             CalculateLetterGrade(
                                 Percentage(batch[i].score, batch[i].max_score)),
                             by, at)]
        first == Min(Offending(batch))
        result == IF \E i \in Indices(batch) : ~GradeCreateOK(batch[i])
                  THEN "InvalidInput"
                  ELSE IF Offending(batch) # {}
                  THEN CourseCheck(batch[first].course_id, batch[first].student_id)
                  ELSE IF \E i \in Indices(rows) : ~GradeValidators(rows[i])
                  THEN "InvalidInput"
                  ELSE IF \E i \in Indices(rows) : ~GradeConstraints(rows[i])
                  THEN "ConstraintViolation"
                  ELSE "OK"
        reported == IF result \in {"NotFound", "InactiveResource", "NotEnrolled"}
                    THEN {first} ELSE {}
        \* course_repo.get_by_id runs once for every entry the loop reaches
        lookups == IF \E i \in Indices(batch) : ~GradeCreateOK(batch[i]) THEN 0
                   ELSE IF Offending(batch) # {} THEN first
                   ELSE Len(batch)
    IN  /\ Idle
        /\ result = "OK" => Len(grades) + Len(batch) <= MaxGrades
        /\ IF result \in {"OK", "ConstraintViolation"}
           THEN grades' = GradesBulkCreate(rows)
           ELSE UNCHANGED grades
        /\ IF result = "OK" THEN clock' = at ELSE UNCHANGED clock /\ at = clock
        /\ last' = [lookups |-> lookups]
                    @@ Call("bulk_record_grades", batch, result, reported)
        /\ UNCHANGED <<courses, attendance, classified, cache, metrics, requests>>

\* two percentages are the same number: the same key of the cache
SameKey(p, q) == p[1] * q[2] = q[1] * p[2]

\* functools.lru_cache around _get_letter_grade_cached for one service: a hit
\* returns the stored letter and makes its entry the newest, a miss computes
\* the letter and stores it, dropping the oldest entry of a full cache
CacheLookup(c, p) ==
    IF \E i \in 1..Len(c) : SameKey(c[i].key, p)
    THEN LET i == CHOOSE i \in 1..Len(c) : SameKey(c[i].key, p)
         IN  [cache |-> SubSeq(c, 1, i - 1) \o SubSeq(c, i + 1, Len(c)) \o <<c[i]>>,
              letter |-> c[i].letter,
              computed |-> FALSE]
    ELSE [cache |-> (IF Len(c) >= MaxCache THEN Tail(c) ELSE c)
                        \o <<[key |-> p, letter |-> GetLetterGradeCached(p)]>>,
          letter |-> GetLetterGradeCached(p),
          computed |-> TRUE]

\* the cache after the calls for the percentages of a sequence, in its order
RECURSIVE CacheAfter(_, _)
CacheAfter(c, ps) ==
    IF ps = <<>> THEN c
    ELSE CacheAfter(CacheLookup(c, Head(ps)).cache, Tail(ps))

\* OptimizedGradeService.record_grade_batch behind the same schema
RecordGradeBatch(batch, by) ==
    \E at \in Readings :
    LET rows == [i \in Indices(batch) |->
                    GradeRow(batch[i],
                             GetLetterGradeCached(
                                 Percentage(batch[i].score, batch[i].max_score)),
                             by, at)]
        result == IF \E i \in Indices(batch) : ~GradeCreateOK(batch[i])
                  THEN "InvalidInput"
                  ELSE IF Offending(batch) # {} THEN "ValidationErrors"
                  ELSE IF \E i \in Indices(rows) : ~GradeValidators(rows[i])
                  THEN "InvalidInput"
                  ELSE IF \E i \in Indices(rows) : ~GradeConstraints(rows[i])
                  THEN "ConstraintViolation"
                  ELSE "OK"
        reported == IF result = "ValidationErrors" THEN Offending(batch) ELSE {}
        \* one query fetches every distinct course the batch names
        lookups == IF \E i \in Indices(batch) : ~GradeCreateOK(batch[i]) THEN 0
                   ELSE Cardinality({batch[i].course_id : i \in Indices(batch)})
    IN  /\ Idle
        /\ result = "OK" => Len(grades) + Len(batch) <= MaxGrades
        /\ IF result \in {"OK", "ConstraintViolation"}
           THEN grades' = GradesBulkCreate(rows)
           ELSE UNCHANGED grades
        /\ IF result = "OK" THEN clock' = at ELSE UNCHANGED clock /\ at = clock
        /\ last' = [lookups |-> lookups]
                    @@ Call("record_grade_batch", batch, result, reported)
        \* the letter of every entry that passes the checks goes through the cache
        /\ cache' = IF \E i \in Indices(batch) : ~GradeCreateOK(batch[i]) THEN cache
                    ELSE LET checked == SelectSeq(batch,
                                 LAMBDA g : CourseCheck(g.course_id, g.student_id) = "OK")
                         IN  CacheAfter(cache,
                                 [i \in 1..Len(checked) |->
                                     Percentage(checked[i].score, checked[i].max_score)])
        /\ UNCHANGED <<courses, attendance, classified, metrics, requests>>

\* -------------------------------------------------- attendance schema
\* AttendanceBase.validate_status and update_attendance: the allowed statuses
AllowedStatuses == {"present", "absent", "late", "excused"}

\* str.lower() on the statuses a caller sends: those written in capitals
Lower(status) ==
    CASE status = "PRESENT" -> "present"
      [] status = "ABSENT" -> "absent"
      [] status = "LATE" -> "late"
      [] status = "EXCUSED" -> "excused"
      [] OTHER -> status

\* AttendanceCreate(**raw) is accepted: validate_status lower-cases the status
AttendanceCreateOK(raw) == Lower(raw.status) \in AllowedStatuses

\* datetime.date(): the calendar day of a date-time <<day, time of day>>
DateOf(datetime) == datetime[1]

\* ---------------------------------------------------- attendance table
\* a table with two rows for one student, course and calendar day
HasDailyDuplicate(table) ==
    \E i, j \in 1..Len(table) :
        /\ i < j
        /\ table[i].student_id = table[j].student_id
        /\ table[i].course_id = table[j].course_id
        /\ DateOf(table[i].date) = DateOf(table[j].date)

AttendanceConstraints_NoUnique(table) ==
    \A i \in 1..Len(table) : table[i].status \in AllowedStatuses

\* Attendance.__table_args__: unique_daily_attendance, valid_attendance_status
AttendanceConstraints(table) ==
    /\ ~HasDailyDuplicate(table)
    /\ \A i \in 1..Len(table) : table[i].status \in AllowedStatuses

GetExistingAttendance_ExactTime(s, c, datetime) ==
    {i \in 1..Len(attendance) :
        /\ attendance[i].student_id = s
        /\ attendance[i].course_id = c
        /\ attendance[i].date = datetime}

\* AttendanceService._get_existing_attendance, called with date.date(): the
\* rows of the student and course whose date falls on the day of datetime
GetExistingAttendance(s, c, datetime) ==
    {i \in 1..Len(attendance) :
        /\ attendance[i].student_id = s
        /\ attendance[i].course_id = c
        /\ DateOf(attendance[i].date) = DateOf(datetime)}

\* the row record_attendance and bulk_record_attendance build
AttendanceRow(a, by, at) ==
    [student_id |-> a.student_id, course_id |-> a.course_id,
     date |-> a.date, status |-> Lower(a.status),
     recorded_by |-> by, recorded_at |-> at]

\* AttendanceService.record_attendance behind the AttendanceCreate schema
RecordAttendance(raw, by) ==
    \E at \in Readings :
    LET check == CourseCheck(raw.course_id, raw.student_id)
        row == AttendanceRow(raw, by, at)
        result == IF ~AttendanceCreateOK(raw) THEN "InvalidInput"
                  ELSE IF check # "OK" THEN check
                  ELSE IF GetExistingAttendance(raw.student_id, raw.course_id,
                                                raw.date) # {}
                  THEN "DuplicateRecord"
                  ELSE IF ~AttendanceConstraints(Append(attendance, row))
                  THEN "ConstraintViolation"
                  ELSE "OK"
    IN  /\ Idle
        /\ result = "OK" => Len(attendance) < MaxAttendance
        /\ IF result = "OK"
           THEN attendance' = Append(attendance, row) /\ clock' = at
           ELSE UNCHANGED <<attendance, clock>> /\ at = clock
        /\ last' = Call("record_attendance", <<raw>>, result, {})
        /\ UNCHANGED <<courses, grades, classified, cache, metrics, requests>>

\* record_attendance step by step, as a handler runs it beside the others.
\* A request is received: AttendanceCreate validates it
ReceiveAttendance(w, raw, by) ==
    /\ requests[w] = NoRequest
    /\ requests' = [requests EXCEPT ![w] =
           IF AttendanceCreateOK(raw)
           THEN [pc |-> "course", raw |-> raw, by |-> by]
           ELSE [pc |-> "done", raw |-> raw, result |-> "InvalidInput"]]
    /\ UNCHANGED <<courses, grades, attendance, clock, classified, cache, metrics, last>>

\* course_repo.get_by_id and the checks of the course it returned
LookupCourse(w) ==
    LET r == requests[w]
        check == CourseCheck(r.raw.course_id, r.raw.student_id)
    IN  /\ r.pc = "course"
        /\ requests' = [requests EXCEPT ![w] =
               IF check = "OK" THEN [r EXCEPT !.pc = "existing"]
               ELSE [pc |-> "done", raw |-> r.raw, result |-> check]]
        /\ UNCHANGED <<courses, grades, attendance, clock, classified, cache, metrics, last>>

\* the existence check: _get_existing_attendance on the rows committed so far
CheckExisting(w) ==
    LET r == requests[w]
        existing_attendance ==
            GetExistingAttendance(r.raw.student_id, r.raw.course_id, r.raw.date)
    IN  /\ r.pc = "existing"
        /\ requests' = [requests EXCEPT ![w] =
               IF existing_attendance # {}
               THEN [pc |-> "done", raw |-> r.raw, result |-> "DuplicateRecord"]
               ELSE [r EXCEPT !.pc = "create"]]
        /\ UNCHANGED <<courses, grades, attendance, clock, classified, cache, metrics, last>>

\* attendance_repo.create: the insert commits unless the table refuses the
\* row; the IntegrityError is rolled back and reported as a ValueError
InsertAttendance(w) ==
    \E at \in Readings :
    LET r == requests[w]
        row == AttendanceRow(r.raw, r.by, at)
        committed == AttendanceConstraints(Append(attendance, row))
    IN  /\ r.pc = "create"
        /\ committed => Len(attendance) < MaxAttendance
        /\ IF committed
           THEN attendance' = Append(attendance, row) /\ clock' = at
           ELSE UNCHANGED <<attendance, clock>> /\ at = clock
        /\ requests' = [requests EXCEPT ![w] =
               [pc |-> "done", raw |-> r.raw,
                result |-> IF committed THEN "OK" ELSE "ConstraintViolation"]]
        /\ UNCHANGED <<courses, grades, classified, cache, metrics, last>>

\* the caller takes the response of its request
AttendanceReturns(w) ==
    /\ requests[w].pc = "done"
    /\ requests' = [requests EXCEPT ![w] = NoRequest]
    /\ UNCHANGED <<courses, grades, attendance, clock, classified, cache, metrics, last>>

\* an update that stores the changed record as a new row
UpdateAttendance_Reinsert(id, status, by) ==
    \E at \in Readings :
    LET found == id \in 1..Len(attendance)
        update_data == [status |-> Lower(status), recorded_by |-> by, recorded_at |-> at]
        result == IF Lower(status) \notin AllowedStatuses THEN "InvalidInput"
                  ELSE IF ~found THEN "None"
                  ELSE "OK"
    IN  /\ Idle
        /\ IF result = "OK"
           THEN /\ attendance' = Append(attendance, Patched(attendance[id], update_data))
                /\ clock' = at
           ELSE UNCHANGED <<attendance, clock>> /\ at = clock
        /\ last' = Call("update_attendance", <<id, status>>, result, {})
        /\ UNCHANGED <<courses, grades, classified, cache, metrics, requests>>

\* AttendanceService.update_attendance
UpdateAttendance(id, status, by) ==
    \E at \in Readings :
    LET found == id \in 1..Len(attendance)
        update_data == [status |-> Lower(status), recorded_by |-> by, recorded_at |-> at]
        table == [attendance EXCEPT ![id] = Patched(attendance[id], update_data)]
        result == IF Lower(status) \notin AllowedStatuses THEN "InvalidInput"
                  ELSE IF ~found THEN "None"
                  ELSE IF ~AttendanceConstraints(table) THEN "ConstraintViolation"
                  ELSE "OK"
    IN  /\ Idle
        /\ IF result = "OK"
           THEN attendance' = table /\ clock' = at
           ELSE UNCHANGED <<attendance, clock>> /\ at = clock
        /\ last' = Call("update_attendance", <<id, status>>, result, {})
        /\ UNCHANGED <<courses, grades, classified, cache, metrics, requests>>

\* the entries of a batch that fail a check of the validation loop
OffendingAttendance(batch) ==
    {i \in Indices(batch) :
        \/ CourseCheck(batch[i].course_id, batch[i].student_id) # "OK"
        \/ GetExistingAttendance(batch[i].student_id, batch[i].course_id,
                                 batch[i].date) # {}}

AttendanceBulkCreate_RowByRow(rows) ==
    LET bad == {i \in Indices(rows) :
                   ~AttendanceConstraints(attendance \o SubSeq(rows, 1, i))}
    IN  attendance \o (IF bad = {} THEN rows ELSE SubSeq(rows, 1, Min(bad) - 1))

\* BaseRepository.bulk_create on the attendance table: add_all and one commit,
\* rolled back as a whole on an IntegrityError
AttendanceBulkCreate(rows) ==
    IF AttendanceConstraints(attendance \o rows)
    THEN attendance \o rows ELSE attendance

\* AttendanceService.bulk_record_attendance behind the BulkAttendanceCreate schema
BulkRecordAttendance(batch, by) ==
    \E at \in Readings :
    LET rows == [i \in Indices(batch) |-> AttendanceRow(batch[i], by, at)]
        first == Min(OffendingAttendance(batch))
        check == CourseCheck(batch[first].course_id, batch[first].student_id)
        result == IF \E i \in Indices(batch) : ~AttendanceCreateOK(batch[i])
                  THEN "InvalidInput"
                  ELSE IF OffendingAttendance(batch) # {}
                  THEN (IF check # "OK" THEN check ELSE "DuplicateRecord")
                  ELSE IF ~AttendanceConstraints(attendance \o rows)
                  THEN "ConstraintViolation"
                  ELSE "OK"
        reported == IF result \in {"NotFound", "InactiveResource", "NotEnrolled",
                                   "DuplicateRecord"}
                    THEN {first} ELSE {}
    IN  /\ Idle
        /\ result = "OK" => Len(attendance) + Len(batch) <= MaxAttendance
        /\ IF result \in {"OK", "ConstraintViolation"}
           THEN attendance' = AttendanceBulkCreate(rows)
           ELSE UNCHANGED attendance
        /\ IF result = "OK" THEN clock' = at ELSE UNCHANGED clock /\ at = clock
        /\ last' = Call("bulk_record_attendance", batch, result, reported)
        /\ UNCHANGED <<courses, grades, classified, cache, metrics, requests>>

\* ------------------------------------------------------ classification
\* one call of the letter-grade and GPA-point functions on a percentage
Classify(p) ==
    /\ classified' = <<[percentage |-> p,
                        letter |-> CalculateLetterGrade(p),
                        gpa |-> PercentageToGpa(p)]>>
                     \o (IF classified = <<>> THEN <<>> ELSE <<classified[1]>>)
    /\ UNCHANGED <<courses, grades, attendance, clock, cache, last, metrics, requests>>

\* ------------------------------------------------- inputs of the calls
GradeInput(s, c, t, score, max_score) ==
    [student_id |-> s, course_id |-> c, assessment_type |-> t,
     score |-> score, max_score |-> max_score]

\* what a caller sends to record_grade
GradeInputs ==
    {GradeInput("s1", "c1", "quiz", 13, 20), GradeInput("s1", "c1", "quiz", 17, 20),
     GradeInput("s2", "c1", "quiz", 17, 20), GradeInput("s1", "c2", "quiz", 17, 20),
     GradeInput("s1", "c1", "quiz", 21, 20), GradeInput("s1", "c1", "essay", 17, 20),
     GradeInput("s1", "c1", "exam", -1, 20), GradeInput("s1", "c1", "exam", 13, 0)}

\* what a caller sends, entry by entry, to the bulk grade calls
BatchGradeInputs ==
    {GradeInput("s1", "c1", "quiz", 17, 20), GradeInput("s2", "c1", "quiz", 17, 20),
     GradeInput("s1", "c2", "quiz", 17, 20), GradeInput("s1", "c1", "quiz", 21, 20)}

Batches(S) == UNION {[1..n -> S] : n \in 1..MaxBatch}

\* what a caller sends to update_grade: dicts over score, max_score and grade
GradePatches ==
    {[score |-> -1], [score |-> 13], [score |-> 21],
     [max_score |-> 0], [max_score |-> 20], [max_score |-> -20],
     [score |-> 21, max_score |-> 17],
     [grade |-> "A+"], [score |-> 13, grade |-> "A+"]}

AttendanceInput(s, c, day, time, status) ==
    [student_id |-> s, course_id |-> c, date |-> <<day, time>>, status |-> status]

\* what a caller sends to record_attendance
AttendanceInputs ==
    {AttendanceInput("s1", "c1", day, time, status) :
        day \in Days, time \in TimesOfDay, status \in {"present", "absent"}}
    \cup {AttendanceInput("s2", "c1", 1, 0, "present"),
          AttendanceInput("s1", "c2", 1, 0, "present"),
          AttendanceInput("s1", "c1", 1, 0, "bogus")}

\* what a caller sends, entry by entry, to bulk_record_attendance
BatchAttendanceInputs ==
    {AttendanceInput("s1", "c1", 1, 0, "present"),
     AttendanceInput("s1", "c1", 1, 1, "absent"),
     AttendanceInput("s1", "c1", 2, 0, "late"),
     AttendanceInput("s2", "c1", 1, 0, "present")}

\* --------------------------------------------------------- specifications
Init ==
    /\ courses = [c \in CourseIds |-> NoCourse]
    /\ grades = <<>>
    /\ attendance = <<>>
    /\ clock = 1
    /\ classified = <<>>
    /\ cache = <<>>
    /\ metrics = NoMetrics
    /\ requests = NoRequests
    /\ last = NoCall

\* the course directory: c1 is the course that is created, s1 the student
\* who enrols; c2 and s2 are the ids a caller names without either
Directory ==
    \/ CreateCourse("c1")
    \/ DeleteCourse("c1")
    \/ UpdateCourse("c1", TRUE)
    \/ EnrollStudent("c1", "s1")
    \/ UnenrollStudent("c1", "s1")

\* the grade ledger
NextGrade ==
    \/ Directory
    \/ Respond
    \/ \E raw \in GradeInputs, by \in Users : RecordGrade(raw, by)
    \/ \E id \in 1..(MaxGrades + 1), patch \in GradePatches, by \in Users :
          UpdateGrade(id, patch, by)
    \/ \E batch \in Batches(BatchGradeInputs), by \in Users :
          BulkRecordGrades(batch, by)
    \/ \E batch \in Batches(BatchGradeInputs), by \in Users :
          RecordGradeBatch(batch, by)

SpecGrade == Init /\ [][NextGrade]_vars

\* the attendance ledger
NextAttendance ==
    \/ Directory
    \/ Respond
    \/ \E raw \in AttendanceInputs, by \in Users : RecordAttendance(raw, by)
    \/ \E id \in 1..(MaxAttendance + 1), status \in {"late", "LATE", "excused", "bogus"},
          by \in Users : UpdateAttendance(id, status, by)
    \/ \E batch \in Batches(BatchAttendanceInputs), by \in Users :
          BulkRecordAttendance(batch, by)

SpecAttendance == Init /\ [][NextAttendance]_vars

\* what the handlers are sent at the same time: s1's attendance in c1 at two
\* times of day 1 and on day 2
ConcurrentInputs ==
    {AttendanceInput("s1", "c1", 1, 0, "present"),
     AttendanceInput("s1", "c1", 1, 1, "late"),
     AttendanceInput("s1", "c1", 2, 0, "absent"),
     AttendanceInput("s1", "c1", 1, 0, "bogus")}

\* record_attendance calls served by the handlers in any interleaving, beside
\* the course directory
NextConcurrent ==
    \/ Directory
    \/ Respond
    \/ \E w \in Workers, raw \in ConcurrentInputs, by \in Users :
          ReceiveAttendance(w, raw, by)
    \/ \E w \in Workers : LookupCourse(w)
    \/ \E w \in Workers : CheckExisting(w)
    \/ \E w \in Workers : InsertAttendance(w)
    \/ \E w \in Workers : AttendanceReturns(w)

SpecConcurrent == Init /\ [][NextConcurrent]_vars

\* the bulk calls of both ledgers
NextBulk ==
    \/ Directory
    \/ Respond
    \/ \E batch \in Batches(BatchGradeInputs), by \in Users :
          BulkRecordGrades(batch, by)
    \/ \E batch \in Batches(BatchGradeInputs), by \in Users :
          RecordGradeBatch(batch, by)
    \/ \E batch \in Batches(BatchAttendanceInputs), by \in Users :
          BulkRecordAttendance(batch, by)

SpecBulk == Init /\ [][NextBulk]_vars

\* the percentages classified: the whole percents around [0, 100] and the
\* half percents below every threshold
Thresholds == {97, 93, 90, 87, 83, 80, 77, 73, 70, 67, 65}

Percentages ==
    {<<n, 1>> : n \in (-PctOver..0) \cup (62..(100 + PctOver))}
    \cup {<<2 * t - 1, 2>> : t \in Thresholds}

NextClassify == \E p \in Percentages : Classify(p)

SpecClassify == Init /\ [][NextClassify]_vars

\* ======================================================== the claims
\* the fields of a grade row that come from the caller's input
GradeInputOf(row) ==
    GradeInput(row.student_id, row.course_id, row.assessment_type,
               row.score, row.max_score)

\* the fields of an attendance row that come from the caller's input
AttendanceInputOf(row) ==
    [student_id |-> row.student_id, course_id |-> row.course_id,
     date |-> row.date, status |-> row.status]

\* the rows of a table after its first n rows, as the inputs they were built from
Added(table, n, InputOf(_)) ==
    [i \in 1..(Len(table) - n) |-> InputOf(table[n + i])]

\* p <= q for percentages
Leq(p, q) == p[1] * q[2] <= q[1] * p[2]

\* C1: after any sequence of record_attendance, bulk_record_attendance and
\* update_attendance calls, successful or failed, the attendance table holds
\* at most one row for every (student, course, calendar day).
C1_OneRecordPerDay ==
    \A s \in Students, c \in CourseIds, day \in Days :
        Cardinality({i \in 1..Len(attendance) :
                        /\ attendance[i].student_id = s
                        /\ attendance[i].course_id = c
                        /\ DateOf(attendance[i].date) = day}) <= 1

\* C1 witness: two rows are stored and a call for a day already recorded was
\* just refused.
C1_Witness ==
    /\ Len(attendance) = 2
    /\ last.op \in {"record_attendance", "bulk_record_attendance"}
    /\ last.result \in {"DuplicateRecord", "ConstraintViolation"}

\* a grade input passes everything a grade write validates before it writes
GradeEntryValid(g) ==
    /\ g.assessment_type \in AllowedTypes
    /\ 0 <= g.score /\ g.score <= g.max_score /\ g.max_score > 0
    /\ courses[g.course_id].exists /\ courses[g.course_id].is_active
    /\ courses[g.course_id].enrolled_students # NoList
    /\ g.student_id \in courses[g.course_id].enrolled_students

\* an attendance input passes everything an attendance write validates, in a
\* batch that holds the entries of batch beside it
AttendanceEntryValid(a, i, batch) ==
    /\ a.status \in AllowedStatuses
    /\ courses[a.course_id].exists /\ courses[a.course_id].is_active
    /\ courses[a.course_id].enrolled_students # NoList
    /\ a.student_id \in courses[a.course_id].enrolled_students
    /\ \A k \in 1..Len(attendance) :
          ~(/\ attendance[k].student_id = a.student_id
            /\ attendance[k].course_id = a.course_id
            /\ attendance[k].date[1] = a.date[1])
    /\ \A j \in 1..Len(batch) :
          j # i => ~(/\ batch[j].student_id = a.student_id
                     /\ batch[j].course_id = a.course_id
                     /\ batch[j].date[1] = a.date[1])

\* C2: a bulk call (bulk_record_grades, record_grade_batch,
\* bulk_record_attendance) is all-or-nothing: when an input of the batch fails
\* validation the call fails and the table is left as it was, and otherwise the
\* call succeeds and the table gains exactly the inputs of the batch, in order.
C2_BulkAllOrNothing ==
    [][/\ last'.op \in {"bulk_record_grades", "record_grade_batch"} =>
            IF \A i \in 1..Len(last'.input) : GradeEntryValid(last'.input[i])
            THEN /\ last'.result = "OK"
                 /\ SubSeq(grades', 1, Len(grades)) = grades
                 /\ Added(grades', Len(grades), GradeInputOf) = last'.input
            ELSE /\ last'.result # "OK"
                 /\ grades' = grades
       /\ last'.op = "bulk_record_attendance" =>
            IF \A i \in 1..Len(last'.input) :
                  AttendanceEntryValid(last'.input[i], i, last'.input)
            THEN /\ last'.result = "OK"
                 /\ SubSeq(attendance', 1, Len(attendance)) = attendance
                 /\ Added(attendance', Len(attendance), AttendanceInputOf) = last'.input
            ELSE /\ last'.result # "OK"
                 /\ attendance' = attendance]_vars

\* C2 witness: a grade batch whose first input is valid and whose second is not
\* was refused while the grades table was empty.
C2_Witness ==
    /\ last.op \in {"bulk_record_grades", "record_grade_batch"}
    /\ Len(last.input) = 2
    /\ GradeEntryValid(last.input[1])
    /\ ~GradeEntryValid(last.input[2])
    /\ last.result # "OK"
    /\ grades = <<>>

\* C3 (refuted by the code): every stored grade row carries the letter that
\* the classification gives for score / max_score * 100, whatever record_grade,
\* bulk and update_grade calls were made.
C3_LetterIsDerived ==
    \A i \in 1..Len(grades) :
        grades[i].grade =
            CalculateLetterGrade(Percentage(grades[i].score, grades[i].max_score))

\* C4: record_grade on a schema-valid input fails with NotFound when the course
\* does not exist, else with InactiveResource when the course is inactive, else
\* with NotEnrolled when the student is not in the enrolment set (an absent or
\* empty set included), and in each of these cases no grade row is written.
C4_CourseChecksInOrder ==
    [][(last'.op = "record_grade" /\ GradeCreateOK(last'.input[1])) =>
        LET raw == last'.input[1]
            course == courses[raw.course_id]
        IN  /\ ~course.exists =>
                 last'.result = "NotFound" /\ grades' = grades
            /\ (course.exists /\ ~course.is_active) =>
                 last'.result = "InactiveResource" /\ grades' = grades
            /\ (course.exists /\ course.is_active
                  /\ (\/ course.enrolled_students = NoList
                      \/ raw.student_id \notin course.enrolled_students)) =>
                 last'.result = "NotEnrolled" /\ grades' = grades]_vars

\* C4 witness: record_grade was refused for an inactive course in which the
\* student is not enrolled either, so that the order of the checks shows.
C4_Witness ==
    /\ last.op = "record_grade"
    /\ last.result = "InactiveResource"
    /\ last.input[1].student_id \notin courses[last.input[1].course_id].enrolled_students

\* C5 (refuted by the code): record_grade and bulk_record_grades, called for an
\* enrolled student of an active course with score < 0, max_score <= 0 or
\* score > max_score, reject the input with InvalidInput.
C5_BoundsRejectedAsInvalidInput ==
    /\ last.op = "record_grade" =>
          LET raw == last.input[1] IN
          (/\ CourseCheck(raw.course_id, raw.student_id) = "OK"
           /\ raw.assessment_type \in AllowedTypes
           /\ (raw.score < 0 \/ raw.max_score <= 0 \/ raw.score > raw.max_score))
          => last.result = "InvalidInput"
    /\ last.op = "bulk_record_grades" =>
          ((/\ \A i \in 1..Len(last.input) :
                  /\ CourseCheck(last.input[i].course_id,
                                 last.input[i].student_id) = "OK"
                  /\ last.input[i].assessment_type \in AllowedTypes
            /\ \E i \in 1..Len(last.input) :
                  \/ last.input[i].score < 0
                  \/ last.input[i].max_score <= 0
                  \/ last.input[i].score > last.input[i].max_score)
           => last.result = "InvalidInput")

\* the rows of the attendance table for the student, course and day of a
\* caller's input
SameDay(a) ==
    {k \in 1..Len(attendance) :
        /\ attendance[k].student_id = a.student_id
        /\ attendance[k].course_id = a.course_id
        /\ attendance[k].date[1] = a.date[1]}

\* C6: record_attendance for an enrolled student of an active course succeeds
\* when no row exists for the (student, course, calendar day) and then stores
\* the input; when a row exists for that day, whatever its time of day and
\* status, the call fails with DuplicateRecord and the table, the first
\* call's row and status included, is left as it was.
C6_SecondCallIsDuplicate ==
    [][(/\ last'.op = "record_attendance"
        /\ last'.input[1].status \in AllowedStatuses
        /\ CourseCheck(last'.input[1].course_id, last'.input[1].student_id) = "OK") =>
        IF SameDay(last'.input[1]) = {}
        THEN /\ last'.result = "OK"
             /\ SubSeq(attendance', 1, Len(attendance)) = attendance
             /\ Added(attendance', Len(attendance), AttendanceInputOf) = last'.input
        ELSE /\ last'.result = "DuplicateRecord"
             /\ attendance' = attendance]_vars

\* C6 witness: a second record_attendance for a recorded day, at another time
\* of day and with another status, was refused as a duplicate.
C6_Witness ==
    /\ last.op = "record_attendance"
    /\ last.result = "DuplicateRecord"
    /\ \E k \in SameDay(last.input[1]) :
          /\ attendance[k].date[2] # last.input[1].date[2]
          /\ attendance[k].status # last.input[1].status

\* C7: bulk_record_attendance on a batch in which two entries name the same
\* (student, course, calendar day) fails and writes nothing, whether or not a
\* row for that day was stored before.
C7_IntraBatchDuplicateRejected ==
    [][(/\ last'.op = "bulk_record_attendance"
        /\ \E i, j \in 1..Len(last'.input) :
              /\ i < j
              /\ last'.input[i].student_id = last'.input[j].student_id
              /\ last'.input[i].course_id = last'.input[j].course_id
              /\ last'.input[i].date[1] = last'.input[j].date[1]) =>
        /\ last'.result # "OK"
        /\ attendance' = attendance]_vars

\* C7 witness: a batch of two entries for one day, each of which would have been
\* accepted alone, was refused by the table and nothing was stored.
C7_Witness ==
    /\ last.op = "bulk_record_attendance"
    /\ Len(last.input) = 2
    /\ last.input[1].student_id = last.input[2].student_id
    /\ last.input[1].course_id = last.input[2].course_id
    /\ last.input[1].date[1] = last.input[2].date[1]
    /\ last.input[1].date[2] # last.input[2].date[2]
    /\ \A i \in 1..2 :
          /\ CourseCheck(last.input[i].course_id, last.input[i].student_id) = "OK"
          /\ SameDay(last.input[i]) = {}
    /\ last.result = "ConstraintViolation"
    /\ attendance = <<>>

\* C8: update_grade on a stored grade refuses every patch whose resulting
\* (score, max_score), a field the patch leaves out being taken from the stored
\* row, has score < 0, max_score <= 0 or score > max_score, and the refused
\* call leaves the grades table as it was.
C8_InvalidPatchRejected ==
    [][(last'.op = "update_grade" /\ last'.input[1] \in 1..Len(grades)) =>
        LET existing == grades[last'.input[1]]
            patch == last'.input[2]
            score == IF "score" \in DOMAIN patch THEN patch.score ELSE existing.score
            max_score == IF "max_score" \in DOMAIN patch
                         THEN patch.max_score ELSE existing.max_score
        IN  (score < 0 \/ max_score <= 0 \/ score > max_score) =>
                /\ last'.result # "OK"
                /\ grades' = grades]_vars

\* C8 witness: a patch that raises the score of a stored grade above its
\* max_score was refused.
C8_Witness ==
    /\ last.op = "update_grade"
    /\ last.input[1] \in 1..Len(grades)
    /\ "score" \in DOMAIN last.input[2]
    /\ "max_score" \notin DOMAIN last.input[2]
    /\ last.input[2].score > grades[last.input[1]].max_score
    /\ last.result # "OK"

\* C9 (refuted by the code): when bulk_record_grades or bulk_record_attendance
\* fails validation, the error it raises names every offending entry of the
\* batch.
C9_ErrorNamesEveryOffender ==
    /\ (last.op = "bulk_record_grades"
          /\ last.result \in {"NotFound", "InactiveResource", "NotEnrolled"}) =>
            last.reported =
                {i \in 1..Len(last.input) :
                    CourseCheck(last.input[i].course_id,
                                last.input[i].student_id) # "OK"}
    /\ (last.op = "bulk_record_attendance"
          /\ last.result \in {"NotFound", "InactiveResource", "NotEnrolled",
                              "DuplicateRecord"}) =>
            last.reported =
                {i \in 1..Len(last.input) :
                    \/ CourseCheck(last.input[i].course_id,
                                   last.input[i].student_id) # "OK"
                    \/ SameDay(last.input[i]) # {}}

\* C10: the classification is total (every percentage gets one of the twelve
\* letters and one of the twelve point values), deterministic (equal
\* percentages get equal results), monotonic (a percentage at least as large
\* gets at least as many points) and maps a percentage below 0 to F and 0.0 and
\* one above 100 to A+ and 4.0.
C10_ClassifyTotalMonotonic ==
    /\ \A i \in 1..Len(classified) :
          LET r == classified[i] IN
          /\ r.letter \in Letters
          /\ r.gpa \in {0, 7, 10, 13, 17, 20, 23, 27, 30, 33, 37, 40}
          /\ r.percentage[1] < 0 => (r.letter = "F" /\ r.gpa = 0)
          /\ r.percentage[1] > 100 * r.percentage[2] =>
                (r.letter = "A+" /\ r.gpa = 40)
    /\ \A i, j \in 1..Len(classified) :
          /\ Leq(classified[i].percentage, classified[j].percentage) =>
                classified[i].gpa <= classified[j].gpa
          /\ (/\ Leq(classified[i].percentage, classified[j].percentage)
              /\ Leq(classified[j].percentage, classified[i].percentage)) =>
                /\ classified[i].letter = classified[j].letter
                /\ classified[i].gpa = classified[j].gpa

\* C10 witness: a percentage below 0 and one above 100 were classified.
C10_Witness ==
    /\ Len(classified) = 2
    /\ classified[1].percentage[1] < 0
    /\ classified[2].percentage[1] > 100 * classified[2].percentage[2]

\* ------------------------------------------- recording across the tiers
\* scores out of 100 on and just below every threshold of the letter table
TierScores == Thresholds \cup {t - 1 : t \in Thresholds} \cup {0, 85, 100}

TierInputs == {GradeInput("s1", "c1", "exam", n, 100) : n \in TierScores}

\* record_grade for a student who enrols in a course that is created
NextRecord ==
    \/ CreateCourse("c1")
    \/ EnrollStudent("c1", "s1")
    \/ Respond
    \/ \E raw \in TierInputs, by \in Users : RecordGrade(raw, by)

SpecRecord == Init /\ [][NextRecord]_vars

\* the fixed threshold table: the least percentage of every letter above F
LetterTable ==
    <<<<97, "A+">>, <<93, "A">>, <<90, "A-">>, <<87, "B+">>, <<83, "B">>,
      <<80, "B-">>, <<77, "C+">>, <<73, "C">>, <<70, "C-">>, <<67, "D+">>,
      <<65, "D">>>>

\* the letter of the table for score / max_score * 100
TableLetter(score, max_score) ==
    LET reached == {i \in 1..Len(LetterTable) :
                       100 * score >= LetterTable[i][1] * max_score}
    IN  IF reached = {} THEN "F"
        ELSE LetterTable[CHOOSE i \in reached : \A j \in reached : i <= j][2]

\* C11: record_grade for a student enrolled in an existing active course,
\* with 0 <= score <= max_score, max_score > 0 and an allowed assessment type,
\* succeeds, appends exactly one row built from the input and stores on it the
\* letter of the threshold table; 85 out of 100 is stored as "B".
C11_ValidGradeRecorded ==
    [][(last'.op = "record_grade" /\ GradeEntryValid(last'.input[1])) =>
        LET raw == last'.input[1] IN
        /\ last'.result = "OK"
        /\ Len(grades') = Len(grades) + 1
        /\ SubSeq(grades', 1, Len(grades)) = grades
        /\ GradeInputOf(grades'[Len(grades')]) = raw
        /\ grades'[Len(grades')].grade = TableLetter(raw.score, raw.max_score)
        /\ (raw.score = 85 /\ raw.max_score = 100) =>
              grades'[Len(grades')].grade = "B"]_vars

\* C11 witness: 85 out of 100 was recorded after a grade on a threshold and is
\* stored as the second row with letter "B".
C11_Witness ==
    /\ last.op = "record_grade"
    /\ last.result = "OK"
    /\ last.input[1].score = 85
    /\ last.input[1].max_score = 100
    /\ Len(grades) = 2
    /\ grades[1].score \in Thresholds
    /\ grades[2].grade = "B"

\* =========================================== the performance aggregator
\* ------------------------------------------------- exact arithmetic
RECURSIVE GCD(_, _)
GCD(a, b) == IF b = 0 THEN a ELSE GCD(b, a % b)

\* a rational <<numerator, denominator>> in lowest terms
Reduced(p) ==
    LET g == GCD(p[1], p[2]) IN <<p[1] \div g, p[2] \div g>>

\* sum(...) of the rationals of a sequence
RECURSIVE Sum(_)
Sum(ps) ==
    IF ps = <<>> THEN <<0, 1>>
    ELSE LET h == Head(ps)
             r == Sum(Tail(ps))
         IN  Reduced(<<h[1] * r[2] + r[1] * h[2], h[2] * r[2]>>)

\* sum(scores) / len(scores)
Mean(ps) == Reduced(<<Sum(ps)[1], Sum(ps)[2] * Len(ps)>>)

\* round(x, 2) of a non-negative rational, in hundredths; no value rounded
\* here lies halfway between two hundredths
Round2(p) == (200 * p[1] + p[2]) \div (2 * p[2])

\* the sum of the numbers of a set of <<key, number>> pairs
RECURSIVE SumPoints(_)
SumPoints(S) ==
    IF S = {} THEN 0
    ELSE LET x == CHOOSE x \in S : TRUE IN x[2] + SumPoints(S \ {x})

\* ------------------------------------------------- reading the ledger
\* Grade rows of a student, as the queries of both services filter them
StudentGrades(s) == SelectSeq(grades, LAMBDA g : g.student_id = s)

\* [(g.score / g.max_score) * 100 for g in rows]
PercentagesOf(rows) ==
    [i \in 1..Len(rows) |-> Percentage(rows[i].score, rows[i].max_score)]

CoursesOf(rows) == {rows[i].course_id : i \in 1..Len(rows)}

InCourse(rows, c) == SelectSeq(rows, LAMBDA g : g.course_id = c)

\* Python's None for a GPA; a GPA is otherwise the rational of its points
NoGpa == <<>>

\* ----------------------------------------------------------- the GPA
CalculateGpaOptimized_PerAssessment(rows) ==
    IF rows = <<>> THEN NoGpa
    ELSE <<SumPoints({<<i, PercentageToGpa(PercentagesOf(rows)[i])>> :
                         i \in 1..Len(rows)}),
           10 * Len(rows)>>

\* OptimizedGradeService._calculate_gpa_optimized: the points of every
\* course's mean percentage, averaged over the courses
CalculateGpaOptimized(rows) ==
    IF rows = <<>> THEN NoGpa
    ELSE LET total_points ==
                 SumPoints({<<c, PercentageToGpa(Mean(PercentagesOf(InCourse(rows, c))))>> :
                               c \in CoursesOf(rows)})
             total_credits == Cardinality(CoursesOf(rows))
         IN  <<total_points, 10 * total_credits>>

\* GradeRepository._percentage_to_gpa, in tenths of a point
RepositoryPercentageToGpa(p) ==
    IF Geq(p, 97) THEN 40
    ELSE IF Geq(p, 93) THEN 37
    ELSE IF Geq(p, 90) THEN 33
    ELSE IF Geq(p, 87) THEN 30
    ELSE IF Geq(p, 83) THEN 27
    ELSE IF Geq(p, 80) THEN 23
    ELSE IF Geq(p, 77) THEN 20
    ELSE IF Geq(p, 73) THEN 17
    ELSE IF Geq(p, 70) THEN 13
    ELSE IF Geq(p, 67) THEN 10
    ELSE IF Geq(p, 65) THEN 7
    ELSE 0

\* the (course, assessment type) pairs a student has grades for
GradeKeys(s) ==
    {<<grades[i].course_id, grades[i].assessment_type>> :
        i \in {j \in 1..Len(grades) : grades[j].student_id = s}}

\* the rows that can end as latest_grades[type] of a course: those of the
\* latest recorded_at; among several of one recorded_at the first the query
\* returns is kept, and the query states no order
Latest(s, key) ==
    LET mine == {i \in 1..Len(grades) :
                    /\ grades[i].student_id = s
                    /\ grades[i].course_id = key[1]
                    /\ grades[i].assessment_type = key[2]}
    IN  {i \in mine : \A j \in mine : grades[j].recorded_at <= grades[i].recorded_at}

\* every latest_grades the loop of calculate_student_gpa can end with
LatestChoices(s) ==
    {f \in [GradeKeys(s) -> 1..Len(grades)] :
        \A key \in GradeKeys(s) : f[key] \in Latest(s, key)}

\* the numbers of a set in ascending order
RECURSIVE Ascending(_)
Ascending(S) ==
    IF S = {} THEN <<>> ELSE <<Min(S)>> \o Ascending(S \ {Min(S)})

\* latest_grades.values() of a course
LatestOfCourse(s, latest_grades, c) ==
    LET kept == Ascending({latest_grades[key] :
                              key \in {k \in GradeKeys(s) : k[1] = c}})
    IN  [i \in 1..Len(kept) |-> grades[kept[i]]]

\* GradeRepository.calculate_student_gpa, given the latest_grades it kept:
\* the points of the mean percentage of every course's latest grade per
\* assessment type, averaged over the courses
CalculateStudentGpa(s, latest_grades) ==
    IF StudentGrades(s) = <<>> THEN NoGpa
    ELSE LET cs == CoursesOf(StudentGrades(s))
             total_points ==
                 SumPoints({<<c, RepositoryPercentageToGpa(
                                     Mean(PercentagesOf(
                                         LatestOfCourse(s, latest_grades, c))))>> :
                               c \in cs})
             total_credits == Cardinality(cs)
         IN  <<total_points, 10 * total_credits>>

\* ------------------------------------------------------ the summaries
\* round(gpa, 2) if gpa else None, in hundredths of a point
RoundedGpa(gpa) ==
    IF gpa = NoGpa \/ gpa[1] = 0 THEN NoGpa ELSE <<Round2(gpa)>>

\* grade_distribution: the number of rows of every letter that occurs
GradeDistribution(rows) ==
    [l \in {rows[i].grade : i \in 1..Len(rows)} |->
        Cardinality({i \in 1..Len(rows) : rows[i].grade = l})]

\* course_performance: mean percentage, number of rows and letters of every course
CoursePerformance(rows) ==
    [c \in CoursesOf(rows) |->
        [average_score |-> Mean(PercentagesOf(InCourse(rows, c))),
         grade_count |-> Len(InCourse(rows, c)),
         letter_grades |-> [i \in 1..Len(InCourse(rows, c)) |-> InCourse(rows, c)[i].grade]]]

\* assessment_breakdown: number of rows and mean percentage of every type
AssessmentBreakdown(rows) ==
    [t \in {rows[i].assessment_type : i \in 1..Len(rows)} |->
        LET of_type == SelectSeq(rows, LAMBDA g : g.assessment_type = t)
        IN  [count |-> Len(of_type),
             average_score |-> Mean(PercentagesOf(of_type))]]

\* the summary GradeService.get_student_performance_summary returns for a
\* student without grades
EmptySummary ==
    [total_grades |-> 0, gpa |-> NoGpa, average_score |-> 0,
     grade_distribution |-> <<>>, course_performance |-> <<>>,
     assessment_breakdown |-> <<>>]

\* a call that returned a value
Returned(op, input, value) ==
    [op |-> op, input |-> input, result |-> "OK", reported |-> {}, value |-> value]

\* GradeService.get_student_performance_summary
GetStudentPerformanceSummary(s) ==
    \E latest_grades \in LatestChoices(s) :
    LET rows == StudentGrades(s)
        gpa == CalculateStudentGpa(s, latest_grades)
        summary == IF rows = <<>> THEN EmptySummary
                   ELSE [total_grades |-> Len(rows),
                         gpa |-> RoundedGpa(gpa),
                         average_score |-> Round2(Mean(PercentagesOf(rows))),
                         grade_distribution |-> GradeDistribution(rows),
                         course_performance |-> CoursePerformance(rows),
                         assessment_breakdown |-> AssessmentBreakdown(rows)]
    IN  /\ Idle
        /\ last' = Returned("get_student_performance_summary", <<s>>, summary)
        /\ UNCHANGED <<courses, grades, attendance, clock, classified, cache, metrics, requests>>

\* the endpoint get_student_gpa over GradeService.calculate_student_gpa
GetStudentGpa(s) ==
    \E latest_grades \in LatestChoices(s) :
    LET gpa == CalculateStudentGpa(s, latest_grades)
    IN  /\ Idle
        /\ last' = Returned("get_student_gpa", <<s>>,
                            [student_id |-> s,
                             gpa |-> RoundedGpa(gpa),
                             message |-> IF RoundedGpa(gpa) = NoGpa
                                         THEN "No grades found"
                                         ELSE "GPA calculated successfully"])
        /\ UNCHANGED <<courses, grades, attendance, clock, classified, cache, metrics, requests>>

\* -------------------------------------------- the concurrent aggregation
EmptyPerformanceSummary_ZeroGpa ==
    [total_grades |-> 0, gpa |-> <<0>>, average_score |-> 0,
     grade_distribution |-> <<>>, course_performance |-> <<>>,
     assessment_breakdown |-> <<>>,
     trends |-> [trend |-> "no_data", improvement |-> 0]]

\* OptimizedGradeService._empty_performance_summary
EmptyPerformanceSummary ==
    [total_grades |-> 0, gpa |-> NoGpa, average_score |-> 0,
     grade_distribution |-> <<>>, course_performance |-> <<>>,
     assessment_breakdown |-> <<>>,
     trends |-> [trend |-> "no_data", improvement |-> 0]]

\* the coroutines get_student_performance_optimized hands to asyncio.gather
MetricTasks(include_trends) ==
    {"basic_metrics", "grade_distribution", "course_performance",
     "assessment_breakdown"} \cup (IF include_trends THEN {"trends"} ELSE {})

\* round(x, 2) of a rational of either sign, in hundredths
RoundSigned(p) == IF p[1] < 0 THEN 0 - Round2(<<0 - p[1], p[2]>>) ELSE Round2(p)

\* sorted(grades, key = recorded_at): every order of the rows by recorded_at;
\* rows of one recorded_at stay in the order of the query, which states none
ChronologicalOrders(rows) ==
    {order \in [1..Len(rows) -> 1..Len(rows)] :
        /\ \A i, j \in 1..Len(rows) : i # j => order[i] # order[j]
        /\ \A i, j \in 1..Len(rows) :
              i < j => rows[order[i]].recorded_at <= rows[order[j]].recorded_at}

\* OptimizedGradeService._calculate_trends on the rows in a chronological order
Trends(rows, order) ==
    IF Len(rows) < 2 THEN [trend |-> "insufficient_data", improvement |-> 0]
    ELSE LET all_scores == PercentagesOf([i \in 1..Len(rows) |-> rows[order[i]]])
             overall_average == Mean(all_scores)
             quarter == Len(all_scores) \div 4
             recent_count == IF quarter > 3 THEN quarter ELSE 3
             recent_scores == IF recent_count >= Len(all_scores) THEN all_scores
                              ELSE SubSeq(all_scores,
                                          Len(all_scores) - recent_count + 1,
                                          Len(all_scores))
             recent_average == Mean(recent_scores)
             improvement == <<recent_average[1] * overall_average[2]
                                - overall_average[1] * recent_average[2],
                              recent_average[2] * overall_average[2]>>
         IN  [trend |-> IF improvement[1] > 5 * improvement[2] THEN "improving"
                        ELSE IF improvement[1] < (0 - 5) * improvement[2]
                        THEN "declining"
                        ELSE "stable",
              improvement |-> RoundSigned(improvement),
              recent_average |-> Round2(recent_average),
              overall_average |-> Round2(overall_average)]

\* the lists the query of get_student_performance_optimized can return:
\* the student's rows by descending recorded_at, rows of one recorded_at in
\* any order
QueryResults(s) ==
    LET rows == StudentGrades(s)
    IN  {[i \in 1..Len(rows) |-> rows[order[Len(rows) + 1 - i]]] :
            order \in ChronologicalOrders(rows)}

\* sorted(grades, key = recorded_at) as a permutation of the indices:
\* ascending, rows of one recorded_at in the order of the list
RECURSIVE StableOrder(_, _)
StableOrder(rows, todo) ==
    IF todo = {} THEN <<>>
    ELSE LET i == CHOOSE i \in todo :
                     \A j \in todo :
                         \/ rows[i].recorded_at < rows[j].recorded_at
                         \/ rows[i].recorded_at = rows[j].recorded_at /\ i <= j
         IN  <<i>> \o StableOrder(rows, todo \ {i})

\* the slot of a metric task in the results of asyncio.gather
Pending == [status |-> "pending", result |-> <<>>]

Done(result) == [status |-> "done", result |-> result]

Failed == [status |-> "failed", result |-> <<>>]

\* what the compute function of a metric task returns for the list of grades
MetricResult(t, rows) ==
    CASE t = "basic_metrics" ->
             [average_score |-> Round2(Mean(PercentagesOf(rows))),
              gpa |-> RoundedGpa(CalculateGpaOptimized(rows))]
      [] t = "grade_distribution" -> GradeDistribution(rows)
      [] t = "course_performance" -> CoursePerformance(rows)
      [] t = "assessment_breakdown" -> AssessmentBreakdown(rows)
      [] t = "trends" -> Trends(rows, StableOrder(rows, 1..Len(rows)))

\* get_student_performance_optimized up to the await of asyncio.gather: the
\* running call holds the list of grades every metric task reads
GetStudentPerformanceOptimized(s, include_trends) ==
    /\ Idle
    /\ IF StudentGrades(s) = <<>>
       THEN /\ last' = Returned("get_student_performance_optimized",
                                <<s, include_trends>>, EmptyPerformanceSummary)
            /\ UNCHANGED metrics
       ELSE /\ \E rows \in QueryResults(s) :
                  last' = [op |-> "get_student_performance_optimized",
                           input |-> <<s, include_trends>>,
                           result |-> "Running", reported |-> {}, grades |-> rows]
            /\ metrics' = [t \in MetricTasks(include_trends) |-> Pending]
    /\ UNCHANGED <<courses, grades, attendance, clock, classified, cache, requests>>

MetricCompletes_Clobbering(t) ==
    /\ last.result = "Running"
    /\ t \in DOMAIN metrics
    /\ metrics[t].status = "pending"
    /\ metrics' = [u \in DOMAIN metrics |->
                      IF u = t THEN Done(MetricResult(t, last.grades)) ELSE Pending]
    /\ UNCHANGED <<courses, grades, attendance, clock, classified, cache, last, requests>>

\* a metric task finishes its computation in the executor: it reads the list
\* of grades and leaves its result in its own slot
MetricCompletes(t) ==
    /\ last.result = "Running"
    /\ t \in DOMAIN metrics
    /\ metrics[t].status = "pending"
    /\ metrics' = [metrics EXCEPT ![t] = Done(MetricResult(t, last.grades))]
    /\ UNCHANGED <<courses, grades, attendance, clock, classified, cache, last, requests>>

\* a metric task raises: the executor refuses or fails its computation
MetricFails(t) ==
    /\ last.result = "Running"
    /\ t \in DOMAIN metrics
    /\ metrics[t].status = "pending"
    /\ metrics' = [metrics EXCEPT ![t] = Failed]
    /\ UNCHANGED <<courses, grades, attendance, clock, classified, cache, last, requests>>

AllMetricsDone_IgnoreFailed == \A t \in DOMAIN metrics : metrics[t].status # "pending"

\* asyncio.gather(*tasks) has a result for every task
AllMetricsDone == \A t \in DOMAIN metrics : metrics[t].status = "done"

\* get_student_performance_optimized after asyncio.gather returned: the
\* results are combined into the summary
GatherReturns ==
    /\ last.result = "Running"
    /\ AllMetricsDone
    /\ LET summary == metrics["basic_metrics"].result @@
                      [total_grades |-> Len(last.grades),
                       grade_distribution |-> metrics["grade_distribution"].result,
                       course_performance |-> metrics["course_performance"].result,
                       assessment_breakdown |-> metrics["assessment_breakdown"].result]
       IN  last' = Returned(last.op, last.input,
                            IF last.input[2]
                            THEN [trends |-> metrics["trends"].result] @@ summary
                            ELSE summary)
    /\ metrics' = NoMetrics
    /\ UNCHANGED <<courses, grades, attendance, clock, classified, cache, requests>>

\* asyncio.gather raises the exception of a failed task to the caller, which
\* does not catch it: the call fails and the other results are dropped
GatherRaises ==
    /\ last.result = "Running"
    /\ \E t \in DOMAIN metrics : metrics[t].status = "failed"
    /\ last' = Call(last.op, last.input, "Failed", {})
    /\ metrics' = NoMetrics
    /\ UNCHANGED <<courses, grades, attendance, clock, classified, cache, requests>>

\* ------------------------------------------- summaries of stored ledgers
\* a stored grade of student s1: its letter is the one record_grade derives
StoredGrade(c, t, score, max_score, at) ==
    GradeRow(GradeInput("s1", c, t, score, max_score),
             CalculateLetterGrade(Percentage(score, max_score)), "u1", at)

\* the times the stored grades were recorded at: an earlier and a later one
Stamps == {1, 2}

\* grades of s1 out of 20: 90%, 95% and 100% in quizzes of c1 recorded at
\* either time, 95% and 100% in exams of c1, and 75% in c2
StoredGrades ==
    {StoredGrade("c1", "quiz", score, 20, at) : score \in {18, 19, 20}, at \in Stamps}
    \cup {StoredGrade("c1", "exam", score, 20, 1) : score \in {19, 20}}
    \cup {StoredGrade("c2", "exam", 15, 20, 1)}

\* a ledger of up to MaxLedger grades of s1, who is enrolled in both courses,
\* read at the later time; s2 has no grades
InitSummary ==
    /\ courses = [c \in CourseIds |-> CourseRow(TRUE, {"s1"})]
    /\ grades \in UNION {[1..n -> StoredGrades] : n \in 0..MaxLedger}
    /\ attendance = <<>>
    /\ clock = 2
    /\ classified = <<>>
    /\ cache = <<>>
    /\ metrics = NoMetrics
    /\ requests = NoRequests
    /\ last = NoCall

\* the order in which the summaries below let the metric tasks finish
TaskRank(t) ==
    CASE t = "basic_metrics" -> 1
      [] t = "grade_distribution" -> 2
      [] t = "course_performance" -> 3
      [] t = "assessment_breakdown" -> 4
      [] t = "trends" -> 5

\* both performance summaries of a student; the metric tasks finish one after
\* the other and none fails
NextSummary ==
    \/ Respond
    \/ \E s \in Students : GetStudentPerformanceSummary(s)
    \/ \E s \in Students, include_trends \in BOOLEAN :
          GetStudentPerformanceOptimized(s, include_trends)
    \/ \E t \in MetricTasks(TRUE) :
          /\ \A u \in DOMAIN metrics : TaskRank(u) < TaskRank(t) => metrics[u].status = "done"
          /\ MetricCompletes(t)
    \/ GatherReturns

SpecSummary == InitSummary /\ [][NextSummary]_vars

\* the mean percentage of the student's grades in a course, over all of them
CourseMean(s, c) == Mean(PercentagesOf(InCourse(StudentGrades(s), c)))

\* the student has grades in exactly two courses, one of mean 95% and one of
\* mean 75%
Means95And75(s) ==
    /\ Cardinality(CoursesOf(StudentGrades(s))) = 2
    /\ \E a, b \in CoursesOf(StudentGrades(s)) :
          CourseMean(s, a) = <<95, 1>> /\ CourseMean(s, b) = <<75, 1>>

\* no course holds two of the student's grades of one assessment type
OneGradePerType(s) ==
    \A i, j \in 1..Len(grades) :
        (/\ i # j
         /\ grades[i].student_id = s /\ grades[j].student_id = s
         /\ grades[i].course_id = grades[j].course_id)
        => grades[i].assessment_type # grades[j].assessment_type

\* a performance summary was returned to the caller
SummaryReturned ==
    /\ last.op \in {"get_student_performance_summary",
                    "get_student_performance_optimized"}
    /\ "value" \in DOMAIN last

C13_EmptySummaryForNoGrades ==
    /\ (last.op \in {"get_student_performance_summary",
                     "get_student_performance_optimized"}
          /\ \A i \in 1..Len(grades) : grades[i].student_id # last.input[1]) =>
            /\ "value" \in DOMAIN last
            /\ last.value.total_grades = 0
            /\ last.value.gpa = NoGpa
            /\ last.value.average_score = 0
            /\ last.value.grade_distribution = <<>>
            /\ last.value.course_performance = <<>>
            /\ last.value.assessment_breakdown = <<>>
    /\ (SummaryReturned
          /\ \E i \in 1..Len(grades) : grades[i].student_id = last.input[1]) =>
            last.value.total_grades > 0

\* C13 witness: the optimized summary of s2, who has no grades, was returned
\* from a ledger that holds grades of s1.
C13_Witness ==
    /\ SummaryReturned
    /\ last.op = "get_student_performance_optimized"
    /\ last.input[1] = "s2"
    /\ Len(grades) > 0
    /\ last.value.total_grades = 0

\* ============================================= the attendance reporter
\* the statuses that count as attended
Attended == {"present", "late"}

\* the rows the queries of calculate_attendance_rate count: those of the
\* student, in the course when one is given
RateRows(s, c) ==
    {i \in 1..Len(attendance) :
        /\ attendance[i].student_id = s
        /\ c # None => attendance[i].course_id = c}

AttendanceRate_PresentOnly(s, c) ==
    IF Cardinality(RateRows(s, c)) = 0 THEN <<0, 1>>
    ELSE <<100 * Cardinality({i \in RateRows(s, c) : attendance[i].status = "present"}),
           Cardinality(RateRows(s, c))>>

\* AttendanceRepository.calculate_attendance_rate: a rational percentage
AttendanceRate(s, c) ==
    LET total_records == Cardinality(RateRows(s, c))
        present_records ==
            Cardinality({i \in RateRows(s, c) : attendance[i].status \in Attended})
    IN  IF total_records = 0 THEN <<0, 1>>
        ELSE <<100 * present_records, total_records>>

\* AttendanceService.calculate_attendance_rate
CalculateAttendanceRate(s, c) ==
    /\ Idle
    /\ last' = Returned("calculate_attendance_rate", <<s, c>>, AttendanceRate(s, c))
    /\ UNCHANGED <<courses, grades, attendance, clock, classified, cache, metrics, requests>>

\* AttendanceRepository.get_course_attendance(course_id, attendance_date)
GetCourseAttendance(c, day) ==
    SelectSeq(attendance,
              LAMBDA r : r.course_id = c /\ DateOf(r.date) = day)

\* every row of the course, whatever the period is
AllAttendance_WholeLedger(c, start_date, end_date) ==
    SelectSeq(attendance, LAMBDA r : r.course_id = c)

\* all_attendance: the rows of the course day by day from start_date to end_date
RECURSIVE AllAttendance(_, _, _)
AllAttendance(c, start_date, end_date) ==
    IF start_date > end_date THEN <<>>
    ELSE GetCourseAttendance(c, start_date)
         \o AllAttendance(c, start_date + 1, end_date)

\* the number of rows of a sequence that satisfy a test
Count(rows, Test(_)) == Cardinality({i \in 1..Len(rows) : Test(rows[i])})

\* the report of a period without any row of the course
EmptyReport(c, start_date, end_date) ==
    [course_id |-> c,
     period |-> [start_date |-> start_date, end_date |-> end_date],
     total_records |-> 0,
     overall_attendance_rate |-> 0,
     student_attendance_rates |-> <<>>,
     daily_attendance |-> <<>>,
     status_distribution |-> <<>>]

\* the report of a period with rows of the course
Report(c, start_date, end_date) ==
    LET course == GetCourse(c)
        all_attendance == AllAttendance(c, start_date, end_date)
        total_records == Len(all_attendance)
        status_distribution ==
            [st \in {all_attendance[i].status : i \in 1..total_records} |->
                Count(all_attendance, LAMBDA r : r.status = st)]
        present_count == Count(all_attendance, LAMBDA r : r.status \in Attended)
        members == IF course.enrolled_students = NoList THEN {}
                   ELSE course.enrolled_students
        student_rate(s) ==
            LET student_records == SelectSeq(all_attendance, LAMBDA r : r.student_id = s)
            IN  IF student_records = <<>> THEN 0
                ELSE Round2(<<100 * Count(student_records,
                                          LAMBDA r : r.status \in Attended),
                              Len(student_records)>>)
        daily_stats(day) ==
            LET daily_records == SelectSeq(all_attendance, LAMBDA r : DateOf(r.date) = day)
            IN  [present |-> Count(daily_records, LAMBDA r : r.status = "present"),
                 absent |-> Count(daily_records, LAMBDA r : r.status = "absent"),
                 late |-> Count(daily_records, LAMBDA r : r.status = "late"),
                 excused |-> Count(daily_records, LAMBDA r : r.status = "excused"),
                 total |-> Len(daily_records)]
    IN  [course_id |-> c,
         period |-> [start_date |-> start_date, end_date |-> end_date],
         total_records |-> total_records,
         overall_attendance_rate |-> Round2(<<100 * present_count, total_records>>),
         student_attendance_rates |-> [s \in members |-> student_rate(s)],
         daily_attendance |-> [day \in start_date..end_date |-> daily_stats(day)],
         status_distribution |-> status_distribution]

\* AttendanceService.generate_attendance_report with both dates given
GenerateAttendanceReport(c, start_date, end_date) ==
    /\ Idle
    /\ last' = IF ~GetCourse(c).exists
               THEN \* "Failed to generate attendance report: Course not found"
                    Call("generate_attendance_report", <<c, start_date, end_date>>,
                         "NotFound", {})
               ELSE Returned("generate_attendance_report", <<c, start_date, end_date>>,
                             IF AllAttendance(c, start_date, end_date) = <<>>
                             THEN EmptyReport(c, start_date, end_date)
                             ELSE Report(c, start_date, end_date))
    /\ UNCHANGED <<courses, grades, attendance, clock, classified, cache, metrics, requests>>

\* --------------------------------------- reports over stored attendance
\* the calendar days of a one-week report
Week == 1..7

\* a stored attendance row
StoredAttendance(s, day, status) ==
    [student_id |-> s, course_id |-> "c1", date |-> <<day, 0>>, status |-> status,
     recorded_by |-> "u1", recorded_at |-> 0]

\* the rows of s1 on the days of a set, in the order of the days, with the
\* statuses of a function over the days
RECURSIVE WeekRows(_, _, _)
WeekRows(day, D, status) ==
    IF day > 7 THEN <<>>
    ELSE (IF day \in D THEN <<StoredAttendance("s1", day, status[day])>> ELSE <<>>)
         \o WeekRows(day + 1, D, status)

\* the periods a report is asked for: the week, a part of it, and an empty one
Periods == {<<1, 7>>, <<3, 5>>, <<5, 3>>}

\* c1 exists with s2 and possibly s1 enrolled, c2 does not; s1 has at most one
\* row a day, late or absent; s2 has no row or one on day 1, present or excused
InitReport ==
    /\ \E members \in {{"s1", "s2"}, {"s2"}} :
           courses = [c \in CourseIds |->
                         IF c = "c1" THEN CourseRow(TRUE, members) ELSE NoCourse]
    /\ grades = <<>>
    /\ \E D \in SUBSET Week :
       \E status \in [D -> {"late", "absent"}] :
       \E other \in {<<>>} \cup {<<StoredAttendance("s2", 1, st)>> : st \in {"present", "excused"}} :
           attendance = WeekRows(1, D, status) \o other
    /\ clock = 0
    /\ classified = <<>>
    /\ cache = <<>>
    /\ metrics = NoMetrics
    /\ requests = NoRequests
    /\ last = NoCall

NextReport ==
    \/ Respond
    \/ \E s \in Students, c \in {"c1", None} : CalculateAttendanceRate(s, c)
    \/ \E c \in CourseIds, period \in Periods :
           GenerateAttendanceReport(c, period[1], period[2])

SpecReport == InitReport /\ [][NextReport]_vars

\* a calculate_attendance_rate call has returned
RateReturned == last.op = "calculate_attendance_rate" /\ last.result = "OK"

\* a generate_attendance_report call has returned a report
ReportReturned == last.op = "generate_attendance_report" /\ last.result = "OK"

\* the stored rows of a student, in a course when one is given
RecordsOf(s, c) ==
    {i \in 1..Len(attendance) :
        attendance[i].student_id = s /\ (c = None \/ attendance[i].course_id = c)}

PeriodDays == last.input[2]..last.input[3]

\* the stored rows of the reported course on a day
RowsOn(day) ==
    {i \in 1..Len(attendance) :
        attendance[i].course_id = last.input[1] /\ DateOf(attendance[i].date) = day}

\* C15: a report has exactly one daily entry for every calendar day of its
\* period, and the entry of a day without records has total 0, also when no
\* day of the period has a record
C15_OneEntryPerDay ==
    ReportReturned =>
        /\ DOMAIN last.value.daily_attendance = PeriodDays
        /\ \A day \in PeriodDays :
               RowsOn(day) = {} => last.value.daily_attendance[day].total = 0

\* C16: a report has a rate for every student currently enrolled in the
\* course, 0.0 for those without a record in the period, also when the
\* period has no record at all
C16_RateForEveryMember ==
    ReportReturned =>
        LET members == GetCourse(last.input[1]).enrolled_students
        IN  /\ DOMAIN last.value.student_attendance_rates = members
            /\ \A s \in members :
                   (\A day \in PeriodDays : \A i \in RowsOn(day) : attendance[i].student_id # s)
                       => last.value.student_attendance_rates[s] = 0

\* ======================================== the other reads of the ledger
\* GradeRepository._score_to_letter_grade
ScoreToLetterGrade(p) ==
    IF Geq(p, 97) THEN "A+"
    ELSE IF Geq(p, 93) THEN "A"
    ELSE IF Geq(p, 90) THEN "A-"
    ELSE IF Geq(p, 87) THEN "B+"
    ELSE IF Geq(p, 83) THEN "B"
    ELSE IF Geq(p, 80) THEN "B-"
    ELSE IF Geq(p, 77) THEN "C+"
    ELSE IF Geq(p, 73) THEN "C"
    ELSE IF Geq(p, 70) THEN "C-"
    ELSE IF Geq(p, 67) THEN "D+"
    ELSE IF Geq(p, 65) THEN "D"
    ELSE "F"

\* GradeRepository.get_course_grades
GetCourseGrades(c) == SelectSeq(grades, LAMBDA g : g.course_id = c)

\* GradeRepository.get_grade_analytics
GradeAnalytics(c) ==
    LET rows == GetCourseGrades(c)
        scores == PercentagesOf(rows)
        letters == [i \in 1..Len(rows) |-> ScoreToLetterGrade(scores[i])]
    IN  IF rows = <<>>
        THEN [total_grades |-> 0, average_score |-> 0,
              grade_distribution |-> <<>>, assessment_breakdown |-> <<>>]
        ELSE [total_grades |-> Len(rows),
              average_score |-> Round2(Mean(scores)),
              grade_distribution |->
                  [l \in {letters[i] : i \in 1..Len(rows)} |->
                      Cardinality({i \in 1..Len(rows) : letters[i] = l})],
              assessment_breakdown |-> AssessmentBreakdown(rows)]

\* GradeService.get_grade_analytics
GetGradeAnalytics(c) ==
    /\ Idle
    /\ last' = Returned("get_grade_analytics", <<c>>, GradeAnalytics(c))
    /\ UNCHANGED <<courses, grades, attendance, clock, classified, cache, metrics, requests>>

\* GradeRepository.get_student_grades(student_id, course_id)
GetStudentGrades(s, c) ==
    SelectSeq(grades, LAMBDA g : g.student_id = s /\ (c # None => g.course_id = c))

\* the last five elements of a sequence, or all of it when it has fewer
LastFive(seq) ==
    IF Len(seq) >= 5 THEN SubSeq(seq, Len(seq) - 4, Len(seq)) ELSE seq

\* GradeService.get_grade_trends: scores are hundredths of a percent
GradeTrends(rows, order) ==
    IF rows = <<>>
    THEN [trend |-> "no_data", improvement |-> 0, recent_average |-> 0,
          overall_average |-> 0, grade_history |-> <<>>]
    ELSE LET sorted_grades == [i \in 1..Len(rows) |-> rows[order[i]]]
             grade_history ==
                 [i \in 1..Len(rows) |->
                     [date |-> sorted_grades[i].recorded_at,
                      score |-> Round2(Percentage(sorted_grades[i].score,
                                                  sorted_grades[i].max_score)),
                      letter_grade |-> sorted_grades[i].grade,
                      assessment_type |-> sorted_grades[i].assessment_type]]
             all_scores == [i \in 1..Len(rows) |-> <<grade_history[i].score, 100>>]
             overall_average == Mean(all_scores)
             recent_average == Mean(LastFive(all_scores))
             improvement == <<recent_average[1] * overall_average[2]
                                - overall_average[1] * recent_average[2],
                              recent_average[2] * overall_average[2]>>
         IN  [trend |-> IF improvement[1] > 5 * improvement[2] THEN "improving"
                        ELSE IF improvement[1] < (0 - 5) * improvement[2]
                        THEN "declining"
                        ELSE "stable",
              improvement |-> RoundSigned(improvement),
              recent_average |-> Round2(recent_average),
              overall_average |-> Round2(overall_average),
              grade_history |-> grade_history]

GetGradeTrends(s, c) ==
    /\ Idle
    /\ \E order \in ChronologicalOrders(GetStudentGrades(s, c)) :
           last' = Returned("get_grade_trends", <<s, c>>,
                            GradeTrends(GetStudentGrades(s, c), order))
    /\ UNCHANGED <<courses, grades, attendance, clock, classified, cache, metrics, requests>>

\* AttendanceRepository.get_attendance_analytics: the days with rows only
AttendanceAnalytics(c) ==
    LET attendance_records == SelectSeq(attendance, LAMBDA r : r.course_id = c)
        total_records == Len(attendance_records)
        present_count == Count(attendance_records, LAMBDA r : r.status \in Attended)
        on(day, st) ==
            Count(attendance_records, LAMBDA r : DateOf(r.date) = day /\ r.status = st)
    IN  IF attendance_records = <<>>
        THEN [total_records |-> 0, attendance_rate |-> 0,
              status_distribution |-> <<>>, daily_attendance |-> <<>>]
        ELSE [total_records |-> total_records,
              attendance_rate |-> Round2(<<100 * present_count, total_records>>),
              status_distribution |->
                  [st \in {attendance_records[i].status : i \in 1..total_records} |->
                      Count(attendance_records, LAMBDA r : r.status = st)],
              daily_attendance |->
                  [day \in {DateOf(attendance_records[i].date) : i \in 1..total_records} |->
                      [present |-> on(day, "present"), absent |-> on(day, "absent"),
                       late |-> on(day, "late"), excused |-> on(day, "excused")]]]

\* AttendanceService.get_attendance_analytics
GetAttendanceAnalytics(c) ==
    /\ Idle
    /\ last' = Returned("get_attendance_analytics", <<c>>, AttendanceAnalytics(c))
    /\ UNCHANGED <<courses, grades, attendance, clock, classified, cache, metrics, requests>>

\* AttendanceRepository.get_absent_students: the students of the absent rows
AbsentStudents(c, day) ==
    LET absent_records ==
            SelectSeq(attendance,
                      LAMBDA r : /\ r.course_id = c
                                 /\ DateOf(r.date) = day
                                 /\ r.status = "absent")
    IN  [i \in 1..Len(absent_records) |-> absent_records[i].student_id]

GetAbsentStudents_Purging(c, day) ==
    /\ Idle
    /\ last' = Returned("get_absent_students", <<c, day>>, AbsentStudents(c, day))
    /\ attendance' = SelectSeq(attendance,
                               LAMBDA r : ~(/\ r.course_id = c
                                            /\ DateOf(r.date) = day
                                            /\ r.status = "absent"))
    /\ UNCHANGED <<courses, grades, clock, classified, cache, metrics, requests>>

\* AttendanceService.get_absent_students
GetAbsentStudents(c, day) ==
    /\ Idle
    /\ last' = Returned("get_absent_students", <<c, day>>, AbsentStudents(c, day))
    /\ UNCHANGED <<courses, grades, attendance, clock, classified, cache, metrics, requests>>

\* ------------------------------------------------ reads of stored tables
\* grades of s1 in c1: quizzes of 90% and 100% and an exam of 75%
ReadGrades ==
    {StoredGrade("c1", "quiz", 18, 20, 1), StoredGrade("c1", "quiz", 20, 20, 2),
     StoredGrade("c1", "exam", 15, 20, 1)}

\* attendance of day 1 in c1: none, s1 absent, or s1 present and s2 absent
ReadAttendance ==
    {<<>>,
     <<StoredAttendance("s1", 1, "absent")>>,
     <<StoredAttendance("s1", 1, "present"), StoredAttendance("s2", 1, "absent")>>}

\* c1 exists with both students enrolled, c2 does not
InitRead ==
    /\ courses = [c \in CourseIds |->
                     IF c = "c1" THEN CourseRow(TRUE, Students) ELSE NoCourse]
    /\ grades \in UNION {[1..n -> ReadGrades] : n \in 0..2}
    /\ attendance \in ReadAttendance
    /\ clock = 2
    /\ classified = <<>>
    /\ cache = <<>>
    /\ metrics = NoMetrics
    /\ requests = NoRequests
    /\ last = NoCall

\* every read of the aggregator and of the reporter; the metric tasks of a
\* concurrent aggregation finish or fail in any order
NextRead ==
    \/ Respond
    \/ \E s \in Students : GetStudentPerformanceSummary(s)
    \/ \E s \in Students, include_trends \in BOOLEAN :
           GetStudentPerformanceOptimized(s, include_trends)
    \/ \E t \in MetricTasks(TRUE) : MetricCompletes(t)
    \/ \E t \in MetricTasks(TRUE) : MetricFails(t)
    \/ GatherReturns
    \/ GatherRaises
    \/ \E c \in CourseIds : GetGradeAnalytics(c)
    \/ \E s \in Students, c \in {"c1", None} : GetGradeTrends(s, c)
    \/ \E s \in Students, c \in {"c1", None} : CalculateAttendanceRate(s, c)
    \/ \E c \in CourseIds : GetAttendanceAnalytics(c)
    \/ \E c \in CourseIds, day \in Days : GetAbsentStudents(c, day)
    \/ \E c \in CourseIds : GenerateAttendanceReport(c, 1, 2)

SpecRead == InitRead /\ [][NextRead]_vars

\* the operations of the aggregator and of the reporter
ReadOps ==
    {"get_student_performance_summary", "get_student_performance_optimized",
     "get_grade_analytics", "get_grade_trends", "calculate_attendance_rate",
     "get_absent_students", "get_attendance_analytics", "generate_attendance_report"}

\* C17: every step of an aggregator or reporter operation - its start, the
\* steps of its metric tasks, its return and its failure - leaves the stored
\* grades, the stored attendance and the courses with their enrolment unchanged
C17_ReadsLeaveLedgerUnchanged ==
    [][(last.op \in ReadOps \/ last'.op \in ReadOps)
           => UNCHANGED <<courses, grades, attendance>>]_vars

\* a read has failed over stored grades and stored attendance
C17_Witness ==
    /\ last.op \in ReadOps
    /\ last.result \in {"Failed", "NotFound"}
    /\ grades # <<>>
    /\ attendance # <<>>

\* a concurrent aggregation is waiting for its metric tasks
Gathering == last.op = "get_student_performance_optimized" /\ last.result = "Running"

\* C18: a concurrent aggregation returns a summary only when every metric
\* task has completed; once a task has failed the call can only fail, and the
\* failure carries no summary
C18_GatherAllOrFail ==
    [][Gathering =>
          /\ last'.result = "OK" => \A t \in DOMAIN metrics : metrics[t].status = "done"
          /\ (\E t \in DOMAIN metrics : metrics[t].status = "failed")
                 => /\ last'.result \in {"Running", "Failed"}
                    /\ "value" \notin DOMAIN last']_vars

\* a concurrent aggregation has failed
C18_Witness ==
    /\ last.op = "get_student_performance_optimized"
    /\ last.result = "Failed"
    /\ StudentGrades(last.input[1]) # <<>>

\* ------------------------------------------- validation before the write
\* the calls that write to the grade or to the attendance ledger
GradeWrites == {"record_grade", "bulk_record_grades", "record_grade_batch"}

AttendanceWrites == {"record_attendance", "bulk_record_attendance"}

\* the results of a call that has issued create or bulk_create: the write is
\* committed or refused by the table
WriteIssued == {"OK", "ConstraintViolation"}

\* an attendance input passes the checks an attendance write makes of it
AttendanceChecksPass(a) ==
    /\ a.status \in AllowedStatuses
    /\ CourseCheck(a.course_id, a.student_id) = "OK"
    /\ SameDay(a) = {}

\* C19 (refuted by the code): a ledger write issues create or bulk_create only
\* after every input of the call has passed every validation check - type,
\* score bounds, course, enrolment, and for attendance status and existing
\* record - and a call that fails leaves both ledgers as they were.
C19_NoWriteBeforeValidation ==
    [][/\ (last'.op \in GradeWrites /\ last'.result \in WriteIssued)
              => \A i \in 1..Len(last'.input) : GradeEntryValid(last'.input[i])
       /\ (last'.op \in AttendanceWrites /\ last'.result \in WriteIssued)
              => \A i \in 1..Len(last'.input) : AttendanceChecksPass(last'.input[i])
       /\ (last'.op \in GradeWrites \cup AttendanceWrites /\ last'.result # "OK")
              => UNCHANGED <<grades, attendance>>]_vars

\* ---------------------------------------------- the GPA of all records
\* the GPA the grouping by course gives: the points of every course's mean
\* percentage over all of its records, averaged over the courses
GpaByCourseMeans(s, ToGpa(_)) ==
    <<SumPoints({<<c, ToGpa(CourseMean(s, c))>> : c \in CoursesOf(StudentGrades(s))}),
      10 * Cardinality(CoursesOf(StudentGrades(s)))>>

\* C20 (refuted by the code): the gpa of either performance summary of a
\* student with grades is the average over the student's courses of the
\* points of the course's mean percentage over all of its records, so that
\* records which leave every course mean as it was leave the gpa as it was.
C20_GpaIsMeanOfCourseMeans ==
    (SummaryReturned /\ StudentGrades(last.input[1]) # <<>>) =>
        /\ last.op = "get_student_performance_summary" =>
              last.value.gpa =
                  RoundedGpa(GpaByCourseMeans(last.input[1], RepositoryPercentageToGpa))
        /\ last.op = "get_student_performance_optimized" =>
              last.value.gpa =
                  RoundedGpa(GpaByCourseMeans(last.input[1], PercentageToGpa))

\* ------------------------------------------------------- the trend label
\* the label the comparison of the recent mean with the overall mean gives
\* for percentages in chronological order: the recent ones are the last
\* quarter of them, and at least three
TrendLabel(scores) ==
    LET n == Len(scores)
        k == IF n \div 4 > 3 THEN n \div 4 ELSE 3
        recent == IF k >= n THEN scores ELSE SubSeq(scores, n - k + 1, n)
        r == Mean(recent)
        o == Mean(scores)
        diff == r[1] * o[2] - o[1] * r[2]
        unit == r[2] * o[2]
    IN  IF diff > 5 * unit THEN "improving"
        ELSE IF diff < (0 - 5) * unit THEN "declining"
        ELSE "stable"

\* C21 (refuted by the code): the trend of a summary that was asked with
\* trends is insufficient_data when the student has fewer than two grades,
\* none or one, and otherwise the label of the grades in a chronological
\* order: improving when recent - overall > 5, declining when it is < -5,
\* stable otherwise.
C21_TrendLabel ==
    (/\ last.op = "get_student_performance_optimized"
     /\ "value" \in DOMAIN last
     /\ last.input[2]) =>
        LET rows == StudentGrades(last.input[1])
        IN  /\ "trends" \in DOMAIN last.value
            /\ Len(rows) < 2 => last.value.trends.trend = "insufficient_data"
            /\ Len(rows) >= 2 =>
                   \E order \in ChronologicalOrders(rows) :
                       last.value.trends.trend =
                           TrendLabel(PercentagesOf([i \in 1..Len(rows) |-> rows[order[i]]]))

\* ------------------------------------------- isolation of the metric tasks
\* the summary the metrics give when they are run one after another on a list
SequentialSummary(rows, include_trends) ==
    LET summary == [total_grades |-> Len(rows),
                    average_score |-> Round2(Mean(PercentagesOf(rows))),
                    gpa |-> RoundedGpa(CalculateGpaOptimized(rows)),
                    grade_distribution |-> GradeDistribution(rows),
                    course_performance |-> CoursePerformance(rows),
                    assessment_breakdown |-> AssessmentBreakdown(rows)]
    IN  IF include_trends
        THEN [trends |-> Trends(rows, StableOrder(rows, 1..Len(rows)))] @@ summary
        ELSE summary

\* C22: while a concurrent aggregation waits for its metric tasks, a step of
\* a task changes the slot of that task only and leaves the list of grades,
\* the call and the ledgers as they were; the summary that is returned is,
\* whatever the order in which the tasks finished, the one the metrics give
\* when they are run one after another on the list of grades.
C22_TasksAreIsolated ==
    [][Gathering =>
          /\ last'.result = "Running" =>
                /\ last' = last
                /\ grades' = grades
                /\ DOMAIN metrics' = DOMAIN metrics
                /\ Cardinality({t \in DOMAIN metrics : metrics'[t] # metrics[t]}) <= 1
                /\ \A t \in DOMAIN metrics :
                       metrics[t].status # "pending" => metrics'[t] = metrics[t]
          /\ last'.result = "OK" =>
                last'.value = SequentialSummary(last.grades, last.input[2])]_vars

\* the trend task has finished before the task of the basic metrics, which is
\* first in the list of tasks, and before the per-course breakdown
C22_Witness ==
    /\ Gathering
    /\ last.input[2]
    /\ Len(last.grades) = 2
    /\ metrics["trends"].status = "done"
    /\ metrics["basic_metrics"].status = "pending"
    /\ metrics["course_performance"].status = "pending"
    /\ metrics["grade_distribution"].status = "done"

\* ------------------------------------------------ lookups of a bulk call
\* the courses a batch names
CoursesNamed(batch) == {batch[i].course_id : i \in 1..Len(batch)}

\* C23 (refuted by the code): a bulk grade call that reaches the service
\* looks every distinct course of its batch up exactly once: the number of
\* course lookups is the number of distinct course ids of the batch.
C23_OneLookupPerCourse ==
    (last.op \in {"bulk_record_grades", "record_grade_batch"}
        /\ \A i \in 1..Len(last.input) : GradeCreateOK(last.input[i]))
        => last.lookups = Cardinality(CoursesNamed(last.input))

\* ------------------------------------------------ the memoized classifier
\* one call of OptimizedGradeService._get_letter_grade_cached(percentage)
LetterGradeCached(p) ==
    /\ Idle
    /\ last' = [computed |-> CacheLookup(cache, p).computed]
                   @@ Returned("_get_letter_grade_cached", <<p>>,
                               CacheLookup(cache, p).letter)
    /\ cache' = CacheLookup(cache, p).cache
    /\ UNCHANGED <<courses, grades, attendance, clock, classified, metrics, requests>>

\* percentages of float scores: 85%, 93% and 97%, and percentages that differ
\* from them by less than half a hundredth
CachedPercentages ==
    {<<85, 1>>, <<85001, 1000>>, <<93, 1>>, <<92999, 1000>>,
     <<97, 1>>, <<96996, 1000>>}

NextCache ==
    \/ Respond
    \/ \E p \in CachedPercentages : LetterGradeCached(p)

SpecCache == Init /\ [][NextCache]_vars

\* C24 (refuted by the code): the cache of the memoized classifier is keyed by
\* the percentage rounded to 2 decimals - a call whose rounded percentage is
\* that of an entry of the cache is answered without computing - and the
\* answer for a percentage is the letter of the threshold table for it.
C24_CacheKeyIsRounded ==
    [][last'.op = "_get_letter_grade_cached" =>
          /\ (\E i \in 1..Len(cache) :
                 RoundSigned(cache[i].key) = RoundSigned(last'.input[1]))
                 => ~last'.computed
          /\ last'.value = TableLetter(last'.input[1][1], 100 * last'.input[1][2])]_vars

\* ------------------------------------------------- update_attendance frame
\* the step is a call update_attendance(id, status)
UpdateCalled == ~Idle' /\ last'.op = "update_attendance"

\* the fields of an attendance record an update leaves alone
KeptFields == {"student_id", "course_id", "date"}

\* what holds of every update step whatever its status is
UpdateFrame ==
    LET id == last'.input[1]
    IN  /\ Len(attendance') = Len(attendance)
        /\ \A j \in 1..Len(attendance) :
               /\ j # id => attendance'[j] = attendance[j]
               /\ \A f \in KeptFields : attendance'[j][f] = attendance[j][f]
        /\ last'.result = "OK" <=>
               (Lower(last'.input[2]) \in AllowedStatuses /\ id \in 1..Len(attendance))
        /\ last'.result = "OK" =>
               /\ attendance'[id].status = Lower(last'.input[2])
               /\ attendance'[id].recorded_by \in Users
               /\ attendance'[id].recorded_at = clock'
        /\ last'.result # "OK" => attendance' = attendance
        /\ (Lower(last'.input[2]) \in AllowedStatuses /\ id \notin 1..Len(attendance))
               => last'.result = "None"

\* C25 (amended): update_attendance(id, status) changes only the status and
\* the audit fields of the record with that id: student, course and date of
\* every record, all other records and the number of records stay as they
\* were. The status is lower-cased first: a status that is none of present,
\* absent, late, excused in any letter case fails and changes nothing, one
\* written in capitals is stored lower-cased, and an unknown id with a valid
\* status returns None and changes nothing.
C25_UpdateChangesStatusOnly ==
    [][UpdateCalled =>
          /\ UpdateFrame
          /\ Lower(last'.input[2]) \notin AllowedStatuses
                 => last'.result = "InvalidInput"]_vars

\* an update of the second of two records succeeded with a status written in
\* capitals, and the status stored is another one than before
C25_Witness ==
    /\ last.op = "update_attendance"
    /\ last.result = "OK"
    /\ last.input = <<2, "LATE">>
    /\ Len(attendance) = 2
    /\ attendance[2].status = "late"
    /\ attendance[1].status = "present"

\* C25 as stated: every status outside {present, absent, late, excused} fails
\* and changes nothing.
C25_AsStated ==
    [][UpdateCalled =>
          /\ UpdateFrame
          /\ last'.input[2] \notin AllowedStatuses
                 => (last'.result = "InvalidInput" /\ attendance' = attendance)]_vars

\* --------------------------------------------- interleaved record_attendance
\* the student, course and calendar day a request names
TripleOf(raw) == <<raw.student_id, raw.course_id, DateOf(raw.date)>>

\* handler w performs its insert in this step
Inserting(w) == requests[w].pc = "create" /\ requests'[w].pc = "done"

\* C26: when two record_attendance calls for one student, course and calendar
\* day have both passed the existence check before either inserts, the insert
\* that comes second fails with an error and persists nothing, so at most one
\* of them persists a record; the table never holds two records of one
\* student, course and day.
C26_RaceKeepsOneRecord ==
    [][/\ \A w \in Workers : Inserting(w) =>
              LET r == requests[w]
                  taken == GetExistingAttendance(r.raw.student_id, r.raw.course_id,
                                                 r.raw.date) # {}
              IN  IF taken
                  THEN /\ requests'[w].result = "ConstraintViolation"
                       /\ attendance' = attendance
                  ELSE /\ requests'[w].result = "OK"
                       /\ Len(attendance') = Len(attendance) + 1
       /\ ~HasDailyDuplicate(attendance')
       /\ \A w, v \in Workers :
              (/\ w # v
               /\ requests'[w].pc = "done" /\ requests'[v].pc = "done"
               /\ TripleOf(requests'[w].raw) = TripleOf(requests'[v].raw)
               /\ requests'[w].result = "OK")
                  => requests'[v].result # "OK"]_vars

\* both handlers were past the existence check for day 1, at different times of
\* the day, before either inserted; one insert was committed and the other
\* was refused by the table
C26_Witness ==
    /\ requests["w1"].pc = "done" /\ requests["w2"].pc = "done"
    /\ TripleOf(requests["w1"].raw) = TripleOf(requests["w2"].raw)
    /\ requests["w1"].raw.date # requests["w2"].raw.date
    /\ requests["w1"].result = "ConstraintViolation"
    /\ requests["w2"].result = "OK"
    /\ Len(attendance) = 1

\* ------------------------------------------------ the GPA of failed courses
\* grades of s1 out of 20: 50% in a quiz of c1, 60% in an exam of c2, both
\* worth 0.0 points, and 95% in an exam of c1
FailingGrades ==
    {StoredGrade("c1", "quiz", 10, 20, 1), StoredGrade("c2", "exam", 12, 20, 1),
     StoredGrade("c1", "exam", 19, 20, 1)}

\* a ledger of up to two of these grades; s2 has no grades
InitGpa ==
    /\ courses = [c \in CourseIds |-> CourseRow(TRUE, {"s1"})]
    /\ grades \in UNION {[1..n -> FailingGrades] : n \in 0..2}
    /\ attendance = <<>>
    /\ clock = 2
    /\ classified = <<>>
    /\ cache = <<>>
    /\ metrics = NoMetrics
    /\ requests = NoRequests
    /\ last = NoCall

\* the reads that report a GPA
NextGpa ==
    \/ Respond
    \/ \E s \in Students : GetStudentPerformanceSummary(s)
    \/ \E s \in Students : GetStudentGpa(s)
    \/ \E s \in Students : GetStudentPerformanceOptimized(s, FALSE)
    \/ \E t \in MetricTasks(FALSE) :
          /\ \A u \in DOMAIN metrics : TaskRank(u) < TaskRank(t) => metrics[u].status = "done"
          /\ MetricCompletes(t)
    \/ GatherReturns

SpecGpa == InitGpa /\ [][NextGpa]_vars

\* a read that reports a GPA returned
GpaReturned ==
    /\ last.op \in {"get_student_performance_summary",
                    "get_student_performance_optimized", "get_student_gpa"}
    /\ "value" \in DOMAIN last

\* C27 (refuted by the code): the gpa of a performance summary and of the GPA
\* endpoint is None only when the student has no grade record; a student with
\* a record, every course of 0.0 points included, is reported a number.
C27_GpaNoneOnlyWithoutRecords ==
    GpaReturned =>
        (last.value.gpa = NoGpa <=> StudentGrades(last.input[1]) = <<>>)

\* ------------------------------------------- writes after a deactivation
\* what a caller sends to the four ledger writes beside the course directory
LedgerGradeInputs ==
    {GradeInput("s1", "c1", "quiz", 17, 20), GradeInput("s2", "c1", "quiz", 17, 20)}

LedgerAttendanceInputs ==
    {AttendanceInput("s1", "c1", 1, 0, "present"),
     AttendanceInput("s1", "c1", 2, 0, "late"),
     AttendanceInput("s2", "c1", 1, 0, "present")}

NextLedger ==
    \/ Directory
    \/ Respond
    \/ \E raw \in LedgerGradeInputs, by \in Users : RecordGrade(raw, by)
    \/ \E batch \in Batches(LedgerGradeInputs), by \in Users :
          BulkRecordGrades(batch, by)
    \/ \E raw \in LedgerAttendanceInputs, by \in Users : RecordAttendance(raw, by)
    \/ \E batch \in Batches(LedgerAttendanceInputs), by \in Users :
          BulkRecordAttendance(batch, by)

SpecLedger == Init /\ [][NextLedger]_vars

LedgerWrites ==
    {"record_grade", "bulk_record_grades", "record_attendance",
     "bulk_record_attendance"}

\* the entries a ledger write was sent
EntriesOf(call) ==
    IF call.op \in {"record_grade", "record_attendance"} THEN {call.input[1]}
    ELSE {call.input[i] : i \in 1..Len(call.input)}

\* the course an entry names is deactivated, or its student is not enrolled
Barred(e) ==
    /\ courses[e.course_id].exists
    /\ \/ ~courses[e.course_id].is_active
       \/ NotEnrolled(courses[e.course_id], e.student_id)

\* the step is a call of op that succeeded
Succeeded(op) == ~Idle' /\ last'.op = op /\ last'.result = "OK"

\* C28: once a course is deactivated or a student unenrolled from it, every
\* later record_grade, bulk_record_grades, record_attendance and
\* bulk_record_attendance that names the course (the student and the course)
\* fails and persists nothing, until the course is reactivated (the student
\* enrolled again): a successful delete_course leaves the course inactive and
\* a successful unenroll_student leaves the student off the list, only
\* update_course makes an inactive course active and only enroll_student puts
\* a student on the list, and a write naming an inactive course or a student
\* off the list fails and leaves both ledgers as they were.
C28_BarredWritesFail ==
    [][/\ Succeeded("delete_course") => ~courses'[last'.input[1]].is_active
       /\ Succeeded("unenroll_student") =>
              NotEnrolled(courses'[last'.input[1]], last'.input[2])
       /\ \A c \in CourseIds :
              (courses[c].exists /\ ~courses[c].is_active /\ courses'[c].is_active)
                  => Succeeded("update_course")
       /\ \A c \in CourseIds, s \in Students :
              (courses[c].exists /\ NotEnrolled(courses[c], s)
                  /\ ~NotEnrolled(courses'[c], s))
                  => Succeeded("enroll_student")
       /\ (~Idle' /\ last'.op \in LedgerWrites
              /\ \E e \in EntriesOf(last') : Barred(e))
              => /\ last'.result # "OK"
                 /\ grades' = grades
                 /\ attendance' = attendance]_vars

\* a grade and an attendance record of s1 in c1 were recorded, the course was
\* deactivated afterwards, and a bulk grade write naming it has failed
C28_Witness ==
    /\ last.op = "bulk_record_grades"
    /\ last.result = "InactiveResource"
    /\ Len(last.input) = 2
    /\ ~courses["c1"].is_active
    /\ Len(grades) = 1
    /\ Len(attendance) = 1

\* --------------------------------------------- consistency of a report
\* the sum of the counts of a dict of counts
RECURSIVE SumCounts(_, _)
SumCounts(counts, keys) ==
    IF keys = {} THEN 0
    ELSE LET k == CHOOSE x \in keys : TRUE
         IN  counts[k] + SumCounts(counts, keys \ {k})

\* C29: every attendance report is consistent with itself: total_records is
\* the sum of the counts of status_distribution and the sum of the totals of
\* the daily entries, the total of every daily entry is the sum of its
\* present, absent, late and excused counts, and overall_attendance_rate
\* lies in [0, 100].
C29_ReportIsConsistent ==
    ReportReturned =>
        LET report == last.value
            daily == report.daily_attendance
            totals == [day \in DOMAIN daily |-> daily[day].total]
        IN  /\ report.total_records
                   = SumCounts(report.status_distribution,
                               DOMAIN report.status_distribution)
            /\ report.total_records = SumCounts(totals, DOMAIN totals)
            /\ \A day \in DOMAIN daily :
                   daily[day].total = daily[day].present + daily[day].absent
                                          + daily[day].late + daily[day].excused
            /\ 0 <= report.overall_attendance_rate
            /\ report.overall_attendance_rate <= 100 * 100

\* the report of days 3 to 5 of a week with records of two statuses in the
\* period and records outside of it
C29_Witness ==
    /\ ReportReturned
    /\ last.input = <<"c1", 3, 5>>
    /\ last.value.total_records = 3
    /\ Cardinality(DOMAIN last.value.status_distribution) = 2
    /\ Len(attendance) > 3
    /\ 0 < last.value.overall_attendance_rate
    /\ last.value.overall_attendance_rate < 100 * 100

\* ------------------------------------------- the three letter functions
\* one percentage classified by the letter function of each of the three
\* classes
ClassifyLetters(p) ==
    /\ Idle
    /\ last' = Returned("letter_grade", <<p>>,
                        [service |-> CalculateLetterGrade(p),
                         optimized |-> GetLetterGradeCached(p),
                         repository |-> ScoreToLetterGrade(p)])
    /\ UNCHANGED <<courses, grades, attendance, clock, classified, cache, metrics, requests>>

\* grades sent to record_grade and bulk_record_grades: 97% and 96.5%, 85%,
\* 65% and 64.5%, and one above its maximum
LetterInputs ==
    {GradeInput("s1", "c1", "quiz", 97, 100), GradeInput("s1", "c1", "quiz", 193, 200),
     GradeInput("s1", "c1", "exam", 17, 20), GradeInput("s1", "c1", "exam", 13, 20),
     GradeInput("s1", "c1", "exam", 129, 200), GradeInput("s1", "c1", "quiz", 21, 20)}

\* grades written by record_grade and bulk_record_grades only, and read by the
\* analytics of the course
NextLetters ==
    \/ Directory
    \/ Respond
    \/ \E p \in Percentages : ClassifyLetters(p)
    \/ \E raw \in LetterInputs, by \in Users : RecordGrade(raw, by)
    \/ \E batch \in Batches(LetterInputs), by \in Users : BulkRecordGrades(batch, by)
    \/ \E c \in CourseIds : GetGradeAnalytics(c)

SpecLetters == Init /\ [][NextLetters]_vars

\* C30: the letter functions of GradeService, OptimizedGradeService and
\* GradeRepository give the same letter for every percentage, so that the
\* grade_distribution of the analytics of a course is the number of stored
\* grades per stored letter whenever the grades were written by record_grade
\* or bulk_record_grades.
C30_LetterFunctionsAgree ==
    /\ last.op = "letter_grade" =>
           /\ last.value.service = last.value.optimized
           /\ last.value.service = last.value.repository
    /\ last.op = "get_grade_analytics" =>
           last.value.grade_distribution = GradeDistribution(GetCourseGrades(last.input[1]))

\* the analytics of a course that holds a grade of 97% and one of 96.5%
\* count one A+ and one A
C30_Witness ==
    /\ last.op = "get_grade_analytics"
    /\ last.input = <<"c1">>
    /\ Len(grades) = 2
    /\ {grades[i].score : i \in 1..2} = {97, 193}
    /\ last.value.grade_distribution = GradeDistribution(grades)
    /\ DOMAIN last.value.grade_distribution = {"A+", "A"}

====
